---- MODULE Spec2Model ----
(***************************************************************************)
(* Lead deduplication and upsert engine of contabilidade/macros:           *)
(* normalisation (services.py), identity key, tiered match, create/update  *)
(* with phone-block propagation, and the block/unblock toggle (views.py),  *)
(* run by concurrent requests against one MacroLead table.                 *)
(*                                                                         *)
(* Text is a sequence of one-character strings, so that normalisation,     *)
(* truncation and key suffixing are computed character by character.       *)
(***************************************************************************)
EXTENDS Naturals, Integers, Sequences, FiniteSets, TLC

(* ----------------------------- characters ------------------------------ *)

Digit == {"0", "1", "2", "3", "4", "5", "6", "7", "8", "9"}

LowerLetter == {"a", "b", "c", "d", "e", "f", "g", "h", "i", "j", "k", "l", "m", "n", "o", "p", "q", "r", "s", "t", "u", "v", "w", "x", "y", "z"}

UpperLetter == {"A", "B", "C", "D", "E", "F", "G", "H", "I", "J", "K", "L", "M", "N", "O", "P", "Q", "R", "S", "T", "U", "V", "W", "X", "Y", "Z"}

\* Precomposed accented letters, named by code point, with their NFKD
\* decomposition: base letter followed by a combining mark.
NFKD_TABLE ==
    ("U+00E3" :> <<"a", "U+0303">>) @@ ("U+00E7" :> <<"c", "U+0327">>) @@
    ("U+00E9" :> <<"e", "U+0301">>) @@ ("U+00E1" :> <<"a", "U+0301">>) @@
    ("U+00C3" :> <<"A", "U+0303">>)

Combining == {"U+0303", "U+0327", "U+0301"}

LowerOf ==
    ("A" :> "a") @@ ("B" :> "b") @@ ("C" :> "c") @@ ("D" :> "d") @@ ("E" :> "e") @@ ("F" :> "f") @@
    ("G" :> "g") @@ ("H" :> "h") @@ ("I" :> "i") @@ ("J" :> "j") @@ ("K" :> "k") @@ ("L" :> "l") @@
    ("M" :> "m") @@ ("N" :> "n") @@ ("O" :> "o") @@ ("P" :> "p") @@ ("Q" :> "q") @@ ("R" :> "r") @@
    ("S" :> "s") @@ ("T" :> "t") @@ ("U" :> "u") @@ ("V" :> "v") @@ ("W" :> "w") @@ ("X" :> "x") @@
    ("Y" :> "y") @@ ("Z" :> "z") @@
    ("U+00C3" :> "U+00E3")

IsSpace(c) == c \in {" ", "\t", "\n"}

\* \w of a Python str pattern: letters (accented ones included), digits, "_".
IsWord(c) == c \in Digit \cup LowerLetter \cup UpperLetter \cup {"_"} \cup DOMAIN NFKD_TABLE

IsDigit(c) == c \in Digit

Lower(c) == IF c \in DOMAIN LowerOf THEN LowerOf[c] ELSE c

(* ------------------------------ str methods ---------------------------- *)

\* F applied to the value of x, which is computed once however often F
\* reads it.
Bind(x, F(_)) == CHOOSE y \in {F(v) : v \in {x}} : TRUE

\* the text as an explicit tuple
Text(s) == SubSeq(s, 1, Len(s))

\* str.strip()
Strip(s0) ==
    Bind(Text(s0), LAMBDA s :
        LET lead  == Cardinality({i \in 1..Len(s) : \A j \in 1..i : IsSpace(s[j])})
            trail == Cardinality({i \in 1..Len(s) : \A j \in i..Len(s) : IsSpace(s[j])})
        IN  IF lead = Len(s) THEN <<>> ELSE SubSeq(s, lead + 1, Len(s) - trail))

\* str.lower()
LowerStr(s0) == Bind(Text(s0), LAMBDA s : Text([i \in 1..Len(s) |-> Lower(s[i])]))

\* str.replace(a, b) for one-character a and b
ReplaceChar(s0, a, b) ==
    Bind(Text(s0), LAMBDA s : Text([i \in 1..Len(s) |-> IF s[i] = a THEN b ELSE s[i]]))

\* re.sub(r"<class>+", " ", s): every maximal run of characters of the class
\* becomes one space.
Marked(p) == p[2]

Unmark(marked) ==
    Bind(SelectSeq(marked, Marked), LAMBDA kept : Text([i \in 1..Len(kept) |-> kept[i][1]]))

SubRuns(s0, InClass(_)) ==
    Bind(Text(s0), LAMBDA s :
        Unmark([i \in 1..Len(s) |->
                  IF InClass(s[i]) THEN <<" ", i = 1 \/ ~InClass(s[i-1])>>
                  ELSE <<s[i], TRUE>>]))

\* unicodedata.normalize("NFKD", s)
Nfkd(s0) ==
    Bind(Text(s0), LAMBDA s :
        Unmark([k \in 1..(2 * Len(s)) |->
                  IF s[(k + 1) \div 2] \in DOMAIN NFKD_TABLE
                  THEN <<NFKD_TABLE[s[(k + 1) \div 2]][2 - (k % 2)], TRUE>>
                  ELSE <<s[(k + 1) \div 2], k % 2 = 1>>]))

IsCombining(c) == c \in Combining

NotCombining(c) == ~IsCombining(c)

NotWordSpaceHyphen(c) == ~(IsWord(c) \/ IsSpace(c) \/ c = "-")

normalize_text(value) ==
    Strip(SubRuns(SubRuns(SelectSeq(Nfkd(Strip(value)), NotCombining),
                          NotWordSpaceHyphen),
                  IsSpace))

normalize_header(value) == LowerStr(ReplaceChar(normalize_text(value), "_", " "))

StartsWith55(digits) == Len(digits) >= 2 /\ digits[1] = "5" /\ digits[2] = "5"

\* the rule applied to the value as written, punctuation kept
normalize_phone_KeepsFormatting(value) ==
    Bind(Strip(value), LAMBDA digits :
        IF StartsWith55(digits) /\ Len(digits) > 11 THEN digits
        ELSE IF Len(digits) \in {10, 11} THEN <<"5", "5">> \o digits
        ELSE digits)

\* every number of ten digits or more gets the country code
normalize_phone_PrefixesLong(value) ==
    Bind(SelectSeq(value, IsDigit), LAMBDA digits :
        IF StartsWith55(digits) /\ Len(digits) > 11 THEN digits
        ELSE IF Len(digits) >= 10 THEN <<"5", "5">> \o digits
        ELSE digits)

normalize_phone(value) ==
    Bind(SelectSeq(value, IsDigit), LAMBDA digits :
        IF StartsWith55(digits) /\ Len(digits) > 11 THEN digits
        ELSE IF Len(digits) \in {10, 11} THEN <<"5", "5">> \o digits
        ELSE digits)

TextFields == {"city", "target_region", "contract_status", "company_category"}

SpaceFields == {"establishment_name", "representative_name", "address"}

normalize_value(field, value) ==
    Bind(Strip(value), LAMBDA text :
        IF field \in TextFields THEN normalize_text(text)
        ELSE IF field \in SpaceFields THEN Strip(SubRuns(text, IsSpace))
        ELSE text)

HEADER_ALIASES == {
    <<<<"c", "i", "d", "a", "d", "e">>,
      "city">>,
    <<<<"c", "i", "t", "y">>,
      "city">>,
    <<<<"r", "e", "g", "i", "a", "o", " ", "a", "l", "v", "o">>,
      "target_region">>,
    <<<<"r", "e", "g", "i", "a", "o", "-", "a", "l", "v", "o">>,
      "target_region">>,
    <<<<"t", "a", "r", "g", "e", "t", " ", "r", "e", "g", "i", "o", "n">>,
      "target_region">>,
    <<<<"t", "a", "r", "g", "e", "t", "_", "r", "e", "g", "i", "o", "n">>,
      "target_region">>,
    <<<<"h", "o", "r", "a", "r", "i", "o", " ", "d", "e", " ", "c", "r", "i", "a", "c", "a", "o", " ", "d", "o", " ", "l", "e", "a", "d">>,
      "lead_created_at">>,
    <<<<"h", "o", "r", "a", "r", "i", "o", " ", "c", "r", "i", "a", "c", "a", "o", " ", "d", "o", " ", "l", "e", "a", "d">>,
      "lead_created_at">>,
    <<<<"l", "e", "a", "d", " ", "c", "r", "e", "a", "t", "e", "d", " ", "a", "t">>,
      "lead_created_at">>,
    <<<<"l", "e", "a", "d", "_", "c", "r", "e", "a", "t", "e", "d", "_", "a", "t">>,
      "lead_created_at">>,
    <<<<"n", "o", "m", "e", " ", "d", "o", " ", "e", "s", "t", "a", "b", "e", "l", "e", "c", "i", "m", "e", "n", "t", "o">>,
      "establishment_name">>,
    <<<<"e", "s", "t", "a", "b", "l", "i", "s", "h", "m", "e", "n", "t", "_", "n", "a", "m", "e">>,
      "establishment_name">>,
    <<<<"n", "o", "m", "e", " ", "d", "o", " ", "r", "e", "p", "r", "e", "s", "e", "n", "t", "a", "n", "t", "e", " ", "9", "9">>,
      "representative_name">>,
    <<<<"r", "e", "p", "r", "e", "s", "e", "n", "t", "a", "t", "i", "v", "e", "_", "n", "a", "m", "e">>,
      "representative_name">>,
    <<<<"s", "t", "a", "t", "u", "s", " ", "d", "o", " ", "c", "o", "n", "t", "r", "a", "t", "o">>,
      "contract_status">>,
    <<<<"c", "o", "n", "t", "r", "a", "c", "t", "_", "s", "t", "a", "t", "u", "s">>,
      "contract_status">>,
    <<<<"t", "e", "l", "e", "f", "o", "n", "e", " ", "d", "o", " ", "r", "e", "p", "r", "e", "s", "e", "n", "t", "a", "n", "t", "e", " ", "d", "o", " ", "e", "s", "t", "a", "b", "e", "l", "e", "c", "i", "m", "e", "n", "t", "o">>,
      "representative_phone">>,
    <<<<"r", "e", "p", "r", "e", "s", "e", "n", "t", "a", "t", "i", "v", "e", "_", "p", "h", "o", "n", "e">>,
      "representative_phone">>,
    <<<<"c", "a", "t", "e", "g", "o", "r", "i", "a", " ", "d", "a", " ", "e", "m", "p", "r", "e", "s", "a">>,
      "company_category">>,
    <<<<"c", "o", "m", "p", "a", "n", "y", "_", "c", "a", "t", "e", "g", "o", "r", "y">>,
      "company_category">>,
    <<<<"e", "n", "d", "e", "r", "e", "c", "o">>,
      "address">>,
    <<<<"a", "d", "d", "r", "e", "s", "s">>,
      "address">>,
    <<<<"s", "o", "u", "r", "c", "e">>,
      "source">>
}

\* HEADER_ALIASES.get(h): "" stands for None.
AliasOf(h) ==
    IF \E p \in HEADER_ALIASES : p[1] = h
    THEN (CHOOSE p \in HEADER_ALIASES : p[1] = h)[2]
    ELSE ""

(* --------------------------- identity key ------------------------------ *)

CodeOf ==
    ("a" :> 97) @@ ("b" :> 98) @@ ("c" :> 99) @@ ("d" :> 100) @@ ("e" :> 101) @@ ("f" :> 102) @@
    ("g" :> 103) @@ ("h" :> 104) @@ ("i" :> 105) @@ ("j" :> 106) @@ ("k" :> 107) @@ ("l" :> 108) @@
    ("m" :> 109) @@ ("n" :> 110) @@ ("o" :> 111) @@ ("p" :> 112) @@ ("q" :> 113) @@ ("r" :> 114) @@
    ("s" :> 115) @@ ("t" :> 116) @@ ("u" :> 117) @@ ("v" :> 118) @@ ("w" :> 119) @@ ("x" :> 120) @@
    ("y" :> 121) @@ ("z" :> 122) @@ ("0" :> 48) @@ ("1" :> 49) @@ ("2" :> 50) @@ ("3" :> 51) @@
    ("4" :> 52) @@ ("5" :> 53) @@ ("6" :> 54) @@ ("7" :> 55) @@ ("8" :> 56) @@ ("9" :> 57) @@
    (" " :> 32) @@ ("-" :> 45) @@ ("|" :> 124)

HexDigits == <<"0", "1", "2", "3", "4", "5", "6", "7", "8", "9", "a", "b", "c", "d", "e", "f">>

\* "|".join(parts)
JoinBar(parts) ==
    LET f[i \in 0..Len(parts)] ==
            IF i = 0 THEN <<>>
            ELSE IF i = 1 THEN parts[1]
            ELSE f[i-1] \o <<"|">> \o parts[i]
    IN  f[Len(parts)]

HashModulus == 32749

HashBase == 31

RECURSIVE PowMod(_, _)
PowMod(b, e) ==
    IF e = 0 THEN 1
    ELSE LET half == PowMod(b, e \div 2)
         IN  (((half * half) % HashModulus) * (IF e % 2 = 1 THEN b ELSE 1)) % HashModulus

\* Polynomial hash of text[lo..hi], by halves.
RECURSIVE PolyHash(_, _, _)
PolyHash(text, lo, hi) ==
    IF lo > hi THEN 0
    ELSE IF lo = hi THEN (IF text[lo] \in DOMAIN CodeOf THEN CodeOf[text[lo]] ELSE 1) % HashModulus
    ELSE LET mid == (lo + hi) \div 2
         IN  (PolyHash(text, lo, mid) * PowMod(HashBase, hi - mid) + PolyHash(text, mid + 1, hi))
               % HashModulus

KeyLength == 64

\* hashlib.sha256(text).hexdigest(): a digest of KeyLength hexadecimal
\* characters that is a function of the text alone.  The digest is modelled
\* by a polynomial hash of the text and of its length whose hexadecimal
\* digits are repeated to fill the digest, so distinct hashes differ in
\* every window of eight characters.
HexOf(n, m) ==
    Text([i \in 1..KeyLength |->
            HexDigits[(((IF ((i - 1) % 8) < 4 THEN n ELSE m)
                          \div <<1, 16, 256, 4096>>[((i - 1) % 4) + 1]) % 16) + 1]])

Sha256Hex(text0) ==
    Bind(Text(text0), LAMBDA text :
        Bind(PolyHash(text, 1, Len(text)), LAMBDA h :
            HexOf((h * HashBase + Len(text)) % HashModulus,
                  (h * 7 + 3 * Len(text) + 11) % HashModulus)))

build_unique_key(parsed_row) ==
    Bind(<< normalize_header(parsed_row.source),
            normalize_header(parsed_row.city),
            normalize_header(parsed_row.establishment_name),
            normalize_header(parsed_row.representative_phone_norm) >>,
         LAMBDA stable_parts :
            Sha256Hex(JoinBar(IF stable_parts[4] = <<>>
                              THEN stable_parts \o << normalize_header(parsed_row.address),
                                                      normalize_header(parsed_row.representative_name) >>
                              ELSE stable_parts)))

(* ------------------------- lead_created_at parsing --------------------- *)

AllDigits(t) == \A k \in 1..Len(t) : IsDigit(t[k])

DigitValue ==
    ("0" :> 0) @@ ("1" :> 1) @@ ("2" :> 2) @@ ("3" :> 3) @@ ("4" :> 4) @@
    ("5" :> 5) @@ ("6" :> 6) @@ ("7" :> 7) @@ ("8" :> 8) @@ ("9" :> 9)

\* int(t) for a run of digits
ToNat(t) ==
    LET f[i \in 0..Len(t)] == IF i = 0 THEN 0 ELSE f[i-1] * 10 + DigitValue[t[i]]
    IN  f[Len(t)]

IsLeap(y) == (y % 4 = 0 /\ y % 100 # 0) \/ y % 400 = 0

DaysInMonth(y, m) ==
    IF m = 2 THEN (IF IsLeap(y) THEN 29 ELSE 28)
    ELSE IF m \in {4, 6, 9, 11} THEN 30 ELSE 31

DaysBeforeMonth(y, m) ==
    LET f[k \in 0..12] == IF k = 0 THEN 0 ELSE f[k-1] + DaysInMonth(y, k)
    IN  f[m - 1]

\* datetime.date(y, m, d) succeeds
ValidDate(y, m, d) == y >= 1 /\ m \in 1..12 /\ d >= 1 /\ d <= DaysInMonth(y, m)

\* datetime.time(h, mi, s) succeeds
ValidTime(h, mi, s) == h \in 0..23 /\ mi \in 0..59 /\ s \in 0..59

\* date.toordinal()
Ordinal(y, m, d) ==
    365 * (y - 1) + ((y - 1) \div 4) - ((y - 1) \div 100) + ((y - 1) \div 400)
      + DaysBeforeMonth(y, m) + d

\* TIME_ZONE = "America/Sao_Paulo": UTC-03:00, in minutes
CurrentTzOffset == 0 - 180

\* An aware datetime, as the instant it denotes: <<day ordinal, second of
\* the day>> in UTC, which is what == on aware datetimes compares.
Instant(y, m, d, h, mi, s, offset) ==
    LET secs == (h * 60 + mi - offset) * 60 + s
        day  == Ordinal(y, m, d) + (IF secs < 0 THEN 0 - 1 ELSE IF secs >= 86400 THEN 1 ELSE 0)
    IN  << day, (secs + 86400) % 86400 >>

\* The shape  dddd-d{a}-d{b}[ T]d{c}:d{e}(:d{f})?  at position i of s (f = 0:
\* no seconds); sep is the set of date/time separators accepted.
CoreLen(a, b, c, e, f) == 4 + 1 + a + 1 + b + 1 + c + 1 + e + (IF f > 0 THEN 1 + f ELSE 0)

CoreAt(s, i, a, b, c, e, f, sep) ==
    /\ i + CoreLen(a, b, c, e, f) - 1 <= Len(s)
    /\ AllDigits(SubSeq(s, i, i + 3))
    /\ s[i + 4] = "-"
    /\ AllDigits(SubSeq(s, i + 5, i + 4 + a))
    /\ s[i + 5 + a] = "-"
    /\ AllDigits(SubSeq(s, i + 6 + a, i + 5 + a + b))
    /\ s[i + 6 + a + b] \in sep
    /\ AllDigits(SubSeq(s, i + 7 + a + b, i + 6 + a + b + c))
    /\ s[i + 7 + a + b + c] = ":"
    /\ AllDigits(SubSeq(s, i + 8 + a + b + c, i + 7 + a + b + c + e))
    /\ f > 0 => /\ s[i + 8 + a + b + c + e] = ":"
                /\ AllDigits(SubSeq(s, i + 9 + a + b + c + e, i + 8 + a + b + c + e + f))

CoreFields(s, i, a, b, c, e, f) ==
    [ year   |-> ToNat(SubSeq(s, i, i + 3)),
      month  |-> ToNat(SubSeq(s, i + 5, i + 4 + a)),
      day    |-> ToNat(SubSeq(s, i + 6 + a, i + 5 + a + b)),
      hour   |-> ToNat(SubSeq(s, i + 7 + a + b, i + 6 + a + b + c)),
      minute |-> ToNat(SubSeq(s, i + 8 + a + b + c, i + 7 + a + b + c + e)),
      second |-> IF f > 0 THEN ToNat(SubSeq(s, i + 9 + a + b + c + e, i + 8 + a + b + c + e + f))
                 ELSE 0 ]

\* Results of a parse: [raises, value]; value <<>> is None.
ParseNone == [raises |-> FALSE, value |-> <<>>]

ParseError == [raises |-> TRUE, value |-> <<>>]

ParseTo(v) == [raises |-> FALSE, value |-> v]

\* datetime(**k) with a fixed offset, or ValueError
DatetimeOf(k, offset) ==
    IF ValidDate(k.year, k.month, k.day) /\ ValidTime(k.hour, k.minute, k.second)
    THEN ParseTo(Instant(k.year, k.month, k.day, k.hour, k.minute, k.second, offset))
    ELSE ParseError

Signed(sign, n) == IF sign = "-" THEN 0 - n ELSE n

\* The tzinfo group of django's datetime_re on the stripped rest t of the
\* text:  (Z|[+-]\d{2}(?::?\d{2})?)?$ ; <<matches, aware, offset in minutes>>.
TzOfText(t) ==
    IF t = <<>> THEN <<TRUE, FALSE, 0>>
    ELSE IF t = <<"Z">> THEN <<TRUE, TRUE, 0>>
    ELSE IF t[1] \in {"+", "-"} /\ Len(t) = 3 /\ AllDigits(SubSeq(t, 2, 3))
         THEN <<TRUE, TRUE, Signed(t[1], 60 * ToNat(SubSeq(t, 2, 3)))>>
    ELSE IF t[1] \in {"+", "-"} /\ Len(t) = 5 /\ AllDigits(SubSeq(t, 2, 5))
         THEN <<TRUE, TRUE, Signed(t[1], 60 * ToNat(SubSeq(t, 2, 3)) + ToNat(SubSeq(t, 4, 5)))>>
    ELSE IF t[1] \in {"+", "-"} /\ Len(t) = 6 /\ t[4] = ":"
            /\ AllDigits(SubSeq(t, 2, 3)) /\ AllDigits(SubSeq(t, 5, 6))
         THEN <<TRUE, TRUE, Signed(t[1], 60 * ToNat(SubSeq(t, 2, 3)) + ToNat(SubSeq(t, 5, 6)))>>
    ELSE <<FALSE, FALSE, 0>>

\* \s*(tzinfo)?$ from position i of s, which is stripped text, so the rest
\* ends in no space
DjangoTzAt(s, i) == TzOfText(Strip(SubSeq(s, i, Len(s))))

\* The ways django's datetime_re matches the whole of s (at most one).
DjangoShapes(s) ==
    { p \in [a : 1..2, b : 1..2, c : 1..2, e : 1..2, f : 0..2] :
        /\ CoreAt(s, 1, p.a, p.b, p.c, p.e, p.f, {" ", "T"})
        /\ DjangoTzAt(s, 1 + CoreLen(p.a, p.b, p.c, p.e, p.f))[1] }

DjangoMatch(s, p, tz) ==
    DatetimeOf(CoreFields(s, 1, p.a, p.b, p.c, p.e, p.f),
               IF tz[2] THEN tz[3] ELSE CurrentTzOffset)

\* django.utils.dateparse.parse_datetime followed by make_aware for a naive
\* result: None if s is not well formatted, ValueError if it is well
\* formatted but no valid datetime.
parse_datetime(s) ==
    IF DjangoShapes(s) = {} THEN ParseNone
    ELSE Bind(CHOOSE q \in DjangoShapes(s) : TRUE, LAMBDA p :
             DjangoMatch(s, p, DjangoTzAt(s, 1 + CoreLen(p.a, p.b, p.c, p.e, p.f))))

DateShapes(s) ==
    { p \in [a : 1..2, b : 1..2] :
        /\ Len(s) = 6 + p.a + p.b
        /\ AllDigits(SubSeq(s, 1, 4)) /\ s[5] = "-"
        /\ AllDigits(SubSeq(s, 6, 5 + p.a)) /\ s[6 + p.a] = "-"
        /\ AllDigits(SubSeq(s, 7 + p.a, 6 + p.a + p.b)) }

DateMatch(s, p) ==
    DatetimeOf([ year |-> ToNat(SubSeq(s, 1, 4)), month |-> ToNat(SubSeq(s, 6, 5 + p.a)),
                 day |-> ToNat(SubSeq(s, 7 + p.a, 6 + p.a + p.b)),
                 hour |-> 0, minute |-> 0, second |-> 0 ],
               CurrentTzOffset)

\* django.utils.dateparse.parse_date:  (\d{4})-(\d{1,2})-(\d{1,2})$ , then
\* make_aware(datetime(d.year, d.month, d.day))
parse_date(s) ==
    IF DateShapes(s) = {} THEN ParseNone
    ELSE Bind(CHOOSE q \in DateShapes(s) : TRUE, LAMBDA p : DateMatch(s, p))

\* (?::?(\d{2}))? after the offset hours: the minutes
UtcMinutes(r) ==
    IF Len(r) >= 3 /\ r[1] = ":" /\ AllDigits(SubSeq(r, 2, 3)) THEN ToNat(SubSeq(r, 2, 3))
    ELSE IF Len(r) >= 2 /\ AllDigits(SubSeq(r, 1, 2)) THEN ToNat(SubSeq(r, 1, 2))
    ELSE 0

\* UTC([+-]\d{1,2})... on the text t that follows the time and spaces:
\* n is the number of digits of the hours
UtcOffsetOf(t, n) ==
    <<TRUE, Signed(t[4], ToNat(SubSeq(t, 5, 4 + n))), UtcMinutes(SubSeq(t, 5 + n, Len(t)))>>

\* leading white space removed
LStrip(rest) == Bind(Strip(rest \o <<"x">>), LAMBDA t : SubSeq(t, 1, Len(t) - 1))

UtcOffsetText(t) ==
    IF /\ Len(t) >= 5
       /\ LowerStr(SubSeq(t, 1, 3)) = <<"u", "t", "c">>
       /\ t[4] \in {"+", "-"}
       /\ IsDigit(t[5])
    THEN UtcOffsetOf(t, IF Len(t) >= 6 /\ IsDigit(t[6]) THEN 2 ELSE 1)
    ELSE <<FALSE, 0, 0>>

\* The optional group (?:\s*UTC([+-]\d{1,2})(?::?(\d{2}))?)? of the pattern
\* of parse_lead_datetime, at position i of s, case-insensitive and greedy:
\* <<has offset, hours, minutes>>.
UtcOffsetAt(s, i) == UtcOffsetText(LStrip(SubSeq(s, i, Len(s))))

\* Where re.search finds  \d{4}-\d{2}-\d{2}[ T]\d{2}:\d{2}  in s.
SearchStarts(s) == { i \in 1..Len(s) : CoreAt(s, i, 2, 2, 2, 2, 0, {" ", "T", "t"}) }

\* lines 104-117: strptime with seconds, then without (a ValueError of the
\* second escapes), then the offset; timezone(timedelta) needs an offset
\* strictly inside one day
PatternFields(k, off) ==
    IF ~(ValidDate(k.year, k.month, k.day) /\ ValidTime(k.hour, k.minute, k.second))
    THEN ParseError
    ELSE IF ~off[1] THEN DatetimeOf(k, CurrentTzOffset)
    ELSE IF off[2] * 60 + off[3] <= 0 - 1440 \/ off[2] * 60 + off[3] >= 1440 THEN ParseError
    ELSE DatetimeOf(k, off[2] * 60 + off[3])

PatternMatch(raw, i, f) ==
    PatternFields(CoreFields(raw, i, 2, 2, 2, 2, f), UtcOffsetAt(raw, i + CoreLen(2, 2, 2, 2, f)))

PatternAt(raw, i) ==
    PatternMatch(raw, i, IF CoreAt(raw, i, 2, 2, 2, 2, 2, {" ", "T", "t"}) THEN 2 ELSE 0)

\* lines 96-123, once parse_datetime has returned None
AfterDjango(raw) ==
    IF SearchStarts(raw) # {}
    THEN PatternAt(raw, CHOOSE j \in SearchStarts(raw) : \A k \in SearchStarts(raw) : j <= k)
    ELSE parse_date(raw)

ParseStripped(raw, dt) ==
    IF raw = <<>> THEN ParseNone
    ELSE IF dt.raises THEN ParseError
    ELSE IF dt.value # <<>> THEN dt
    ELSE AfterDjango(raw)

parse_lead_datetime(value) ==
    Bind(Strip(value), LAMBDA raw : Bind(parse_datetime(raw), LAMBDA dt : ParseStripped(raw, dt)))

(* ------------------------------ normalize_row -------------------------- *)

EXPORT_COLUMNS ==
    << "city", "target_region", "lead_created_at", "establishment_name",
       "representative_name", "contract_status", "representative_phone",
       "company_category", "address" >>

\* A raw row: a mapping is its (header, value) items in iteration order;
\* anything else in the payload is no mapping.
Row(items) == [mapping |-> TRUE, items |-> items]

NotAMapping == [mapping |-> FALSE, items |-> <<>>]

\* The dict normalize_row starts from.
EmptyParsed(default_source) ==
    [ city |-> <<>>, target_region |-> <<>>, lead_created_at |-> <<>>,
      establishment_name |-> <<>>, representative_name |-> <<>>,
      contract_status |-> <<>>, representative_phone |-> <<>>,
      company_category |-> <<>>, address |-> <<>>,
      source |-> default_source, representative_phone_norm |-> <<>> ]

\* parse_lead_datetime raises on some item of the row
NormalizeRaises(raw_row) ==
    \E i \in 1..Len(raw_row.items) :
        /\ AliasOf(normalize_header(raw_row.items[i][1])) = "lead_created_at"
        /\ parse_lead_datetime(raw_row.items[i][2]).raises

normalize_row(raw_row, default_source) ==
    LET items == raw_row.items
        f[i \in 0..Len(items)] ==
            IF i = 0 THEN EmptyParsed(default_source)
            ELSE LET mapped == AliasOf(normalize_header(items[i][1]))
                 IN  IF mapped = "" THEN f[i-1]
                     ELSE IF mapped = "lead_created_at"
                          THEN [f[i-1] EXCEPT ![mapped] = parse_lead_datetime(items[i][2]).value]
                          ELSE [f[i-1] EXCEPT ![mapped] = normalize_value(mapped, items[i][2])]
        parsed == f[Len(items)]
    IN  [parsed EXCEPT !.representative_phone_norm = normalize_phone(parsed.representative_phone)]

\* the row is never found empty
AnyExportColumn_Always(parsed) == TRUE

\* any(parsed.get(field) for field, _ in EXPORT_COLUMNS)
AnyExportColumn(parsed) == \E i \in 1..Len(EXPORT_COLUMNS) : parsed[EXPORT_COLUMNS[i]] # <<>>

(* ------------------------------- the rows ------------------------------ *)

\* max_length of the MacroLead columns
CITY_MAX == 255

NAME_MAX == 255

CATEGORY_MAX == 255

STATUS_MAX == 100

PHONE_MAX == 50

Rep(c, n) == Text([i \in 1..n |-> c])

H_city == <<"C", "i", "d", "a", "d", "e">>

H_name == <<"N", "o", "m", "e", " ", "d", "o", " ", "e", "s", "t", "a", "b", "e", "l", "e", "c", "i", "m", "e", "n", "t", "o">>

H_phone == <<"T", "e", "l", "e", "f", "o", "n", "e", " ", "d", "o", " ", "r", "e", "p", "r", "e", "s", "e", "n", "t", "a", "n", "t", "e", " ", "d", "o", " ", "e", "s", "t", "a", "b", "e", "l", "e", "c", "i", "m", "e", "n", "t", "o">>

H_status == <<"S", "t", "a", "t", "u", "s", " ", "d", "o", " ", "c", "o", "n", "t", "r", "a", "t", "o">>

H_addr == <<"E", "n", "d", "e", "r", "e", "c", "o">>

H_rep == <<"N", "o", "m", "e", " ", "d", "o", " ", "r", "e", "p", "r", "e", "s", "e", "n", "t", "a", "n", "t", "e", " ", "9", "9">>

H_cat == <<"C", "a", "t", "e", "g", "o", "r", "i", "a", " ", "d", "a", " ", "e", "m", "p", "r", "e", "s", "a">>

H_date == <<"H", "o", "r", "a", "r", "i", "o", " ", "d", "e", " ", "c", "r", "i", "a", "c", "a", "o", " ", "d", "o", " ", "l", "e", "a", "d">>

H_b99 == <<"S", "e", "u", " ", "N", "e", "g", "o", "c", "i", "o", " ", "n", "a", " ", "9", "9">>

H_junk == <<"O", "b", "s", "e", "r", "v", "a", "c", "a", "o">>

\* test_upsert_deduplicates_with_stable_key, first row, with an address
RowPunct ==
    Row(<< <<H_city, <<"S", "a", "o", " ", "P", "a", "u", "l", "o">>>>,
              <<H_name, <<"L", "o", "j", "a", " ", "T", "e", "s", "t", "e">>>>,
              <<H_phone, <<"(", "1", "1", ")", " ", "9", "9", "9", "9", "9", "-", "0", "0", "0", "0">>>>,
              <<H_status, <<"A", "t", "i", "v", "o">>>>,
              <<H_addr, <<"R", "u", "a", " ", "1">>>> >>)

\* the same lead, phone in bare digits, another status
RowDigits ==
    Row(<< <<H_city, <<"S", "a", "o", " ", "P", "a", "u", "l", "o">>>>,
              <<H_name, <<"L", "o", "j", "a", " ", "T", "e", "s", "t", "e">>>>,
              <<H_phone, <<"1", "1", "9", "9", "9", "9", "9", "0", "0", "0", "0">>>>,
              <<H_status, <<"P", "e", "n", "d", "e", "n", "t", "e">>>> >>)

\* the same establishment and address under another phone number
RowMoved ==
    Row(<< <<H_city, <<"s", "a", "o", " ", "p", "a", "u", "l", "o">>>>,
              <<H_name, <<"L", "O", "J", "A", " ", "T", "E", "S", "T", "E">>>>,
              <<H_phone, <<"(", "2", "1", ")", " ", "9", "8", "8", "8", "8", "-", "0", "0", "0", "0">>>>,
              <<H_status, <<"A", "t", "i", "v", "o">>>>,
              <<H_addr, <<"r", "u", "a", " ", "1">>>> >>)

\* another establishment that shares that other phone number
RowOther ==
    Row(<< <<H_city, <<"S", "a", "o", " ", "P", "a", "u", "l", "o">>>>,
              <<H_name, <<"L", "o", "j", "a", " ", "B">>>>,
              <<H_phone, <<"2", "1", " ", "9", "8", "8", "8", "8", " ", "0", "0", "0", "0">>>> >>)

\* a lead without phone
RowNoPhoneA ==
    Row(<< <<H_city, <<"R", "i", "o">>>>,
              <<H_name, <<"L", "o", "j", "a", " ", "N">>>>,
              <<H_addr, <<"R", "u", "a", " ", "2">>>>,
              <<H_rep, <<"A", "n", "a">>>> >>)

\* the same establishment without phone, other address and representative
RowNoPhoneB ==
    Row(<< <<H_city, <<"R", "i", "o">>>>,
              <<H_name, <<"L", "o", "j", "a", " ", "N">>>>,
              <<H_addr, <<"R", "u", "a", " ", "3">>>>,
              <<H_rep, <<"B", "i", "a">>>> >>)

\* only an unrecognised header
RowJunk ==
    Row(<< <<H_junk, <<"x">>>> >>)

\* a well formatted creation time that is no valid datetime
RowBadDate ==
    Row(<< <<H_city, <<"R", "i", "o">>>>,
              <<H_name, <<"L", "o", "j", "a", " ", "D">>>>,
              <<H_date, <<"2", "0", "2", "6", "-", "0", "2", "-", "3", "0", " ", "1", "0", ":", "0", "0", ":", "0", "0">>>> >>)

\* test_upsert_parses_lead_created_at
RowDate ==
    Row(<< <<H_city, <<"S", "a", "o", " ", "P", "a", "u", "l", "o">>>>,
              <<H_name, <<"L", "o", "j", "a", " ", "D", "a", "t", "a">>>>,
              <<H_phone, <<"1", "1", "9", "9", "9", "9", "9", "0", "0", "0", "0">>>>,
              <<H_date, <<"2", "0", "2", "6", "-", "0", "2", "-", "0", "2", " ", "1", "3", ":", "4", "5", ":", "2", "0", " ", "U", "T", "C", "-", "3">>>>,
              <<H_b99, <<"N", "a", "o", " ", "a", "t", "i", "v", "a", "d", "o">>>> >>)

\* test_upsert_trims_oversized_values, one character over each maximum
RowLong ==
    Row(<< <<H_city, Rep("S", CITY_MAX + 1)>>,
              <<H_name, Rep("L", NAME_MAX + 1)>>,
              <<H_status, Rep("A", STATUS_MAX + 1)>>,
              <<H_phone, Rep("9", PHONE_MAX + 1)>>,
              <<H_cat, Rep("C", CATEGORY_MAX + 1)>>,
              <<H_addr, <<"R", "u", "a", " ", "X">>>> >>)

\* a payload item that is no mapping
RowNotMapping == NotAMapping

\* recognised headers with blank values only
RowBlank ==
    Row(<< <<H_city, <<" ", " ">>>>,
              <<H_name, <<>>>>,
              <<H_date, <<" ">>>> >>)

\* the rows of the payloads, by number
RowAt(r) ==
    CASE r = 1 -> RowPunct     [] r = 2 -> RowDigits    [] r = 3 -> RowMoved
      [] r = 4 -> RowOther     [] r = 5 -> RowNoPhoneA  [] r = 6 -> RowNoPhoneB
      [] r = 7 -> RowJunk      [] r = 8 -> RowBadDate   [] r = 9 -> RowDate
      [] r = 10 -> RowLong     [] r = 11 -> RowNotMapping
      [] r = 12 -> RowBlank

SRC_API == <<"a", "p", "i">>

SRC_CSV == <<"c", "s", "v">>

(* ------------------------------ the store ------------------------------ *)

Sources == <<SRC_API, SRC_CSV>>

\* lines 167-178: what the head of the loop makes of a row: its kind, and
\* for a usable row the parsed row and its unique_key
HeadOf(raw_row, default_source) ==
    IF ~raw_row.mapping
    THEN [kind |-> "invalid", parsed |-> EmptyParsed(<<>>), unique_key |-> <<>>]
    ELSE IF NormalizeRaises(raw_row)
    THEN [kind |-> "raises", parsed |-> EmptyParsed(<<>>), unique_key |-> <<>>]
    ELSE Bind(normalize_row(raw_row, default_source), LAMBDA parsed :
            IF ~AnyExportColumn(parsed)
            THEN [kind |-> "ignored", parsed |-> EmptyParsed(<<>>), unique_key |-> <<>>]
            ELSE [kind |-> "usable", parsed |-> parsed, unique_key |-> build_unique_key(parsed)])

\* the keys of `defaults`: the parsed row without unique_key
DefaultFields ==
    { "city", "target_region", "lead_created_at", "establishment_name",
      "representative_name", "contract_status", "representative_phone",
      "company_category", "address", "source", "representative_phone_norm" }

\* A MacroLead row; its id is its position in the table.
NewLead(parsed, unique_key, is_blocked, now) ==
    [ source |-> parsed.source, city |-> parsed.city,
      target_region |-> parsed.target_region,
      lead_created_at |-> parsed.lead_created_at,
      establishment_name |-> parsed.establishment_name,
      representative_name |-> parsed.representative_name,
      contract_status |-> parsed.contract_status,
      business_99_status |-> <<>>,
      representative_phone |-> parsed.representative_phone,
      representative_phone_norm |-> parsed.representative_phone_norm,
      is_blocked_number |-> is_blocked,
      company_category |-> parsed.company_category,
      address |-> parsed.address,
      unique_key |-> unique_key,
      first_seen_at |-> now, last_seen_at |-> now ]

NoLead == NewLead(EmptyParsed(<<>>), <<>>, FALSE, 0)

\* the columns of MacroLead
LeadFields == DOMAIN NoLead

\* field__iexact=value
IExact(a, b) == LowerStr(a) = LowerStr(b)

\* f"{n:08d}": decimal digits, zero-padded to eight
RECURSIVE Decimal(_)
Decimal(n) == IF n < 10 THEN <<HexDigits[n + 1]>> ELSE Append(Decimal(n \div 10), HexDigits[(n % 10) + 1])

Format08d(n) ==
    LET d == Decimal(n)
    IN  IF Len(d) >= 8 THEN d ELSE [i \in 1..(8 - Len(d)) |-> "0"] \o d

\* the key left as computed, without the id
SuffixedKey_Unchanged(unique_key, id) == unique_key

\* f"{unique_key[:56]}{lead.id:08d}"[:64]
SuffixedKey(unique_key, id) ==
    LET joined == SubSeq(unique_key, 1, IF Len(unique_key) < 56 THEN Len(unique_key) ELSE 56) \o Format08d(id)
    IN  SubSeq(joined, 1, IF Len(joined) < KeyLength THEN Len(joined) ELSE KeyLength)

(* ------------------------------- bounds -------------------------------- *)

\* rows taken by all calls of upsert_rows together
MaxRows == 3

\* block / unblock requests
MaxToggles == 2

Workers == {1, 2}

(* ------------------------------- state --------------------------------- *)

VARIABLES
    leads,      \* the MacroLead table: a sequence of rows, id = position
    clock,      \* timezone.now(), as a counter that every reading advances
    wk,         \* per request worker: the frame of its upsert_rows call
    tg,         \* the frame of the block/unblock request in progress
    toggles,    \* block/unblock requests made so far
    log,        \* what has been done, in order of completion
    pool,       \* the rows the requests of this run may carry
    taken,      \* rows taken from the payloads so far
    fn,         \* the function applied on its own, "" if none
    arg,        \* its argument
    res,        \* its result
    rq,         \* per request worker: the frame of the view it runs
    runs,       \* the MacroRun table: a sequence of rows, id = position
    cache,      \* the cache entries macro_api_rl:<ip>, 0 for none
    admitted,   \* per ip: requests let through since the entry last expired
    out,        \* the responses given, in order
    requests,   \* requests received so far
    agent       \* the local macro agent: STATE, the browser driver, its threads

\* a function of services.py applied on its own
pure == <<fn, arg, res>>

\* the views around upsert_rows
web == <<rq, runs, cache, admitted, out, requests>>

vars == <<leads, clock, wk, tg, toggles, log, pool, taken, pure, web, agent>>

Ids == 1..Len(leads)

IdleFrame ==
    [ pc |-> "idle", src |-> 1, n |-> 0, row |-> 0, parsed |-> EmptyParsed(<<>>),
      unique_key |-> <<>>, lead_id |-> 0, lead |-> NoLead,
      changed |-> {}, is_blocked |-> FALSE, conflict |-> FALSE,
      created |-> 0, updated |-> 0, ignored |-> 0, invalid |-> 0,
      outcome |-> "none", exc |-> "" ]

IdleToggle == [pc |-> "idle", lead_id |-> 0, blocked |-> FALSE, phone_norm |-> <<>>, now |-> 0]

\* the request threads of the agent's ThreadingHTTPServer
AgentHandlers == {1, 2}

\* the form fields _start_job looks at: is api_url given, is api_token given
NoConfig == [api_url |-> FALSE, api_token |-> FALSE]

Configs ==
    { [api_url |-> TRUE, api_token |-> TRUE],
      [api_url |-> FALSE, api_token |-> TRUE],
      [api_url |-> TRUE, api_token |-> FALSE] }

\* STATE and BROWSER_DRIVER as the module sets them, no thread started
IdleAgent ==
    [ running |-> FALSE, last_status |-> "idle", driver |-> "none",
      hd |-> [h \in AgentHandlers |-> [pc |-> "idle", config |-> NoConfig]],
      jobs |-> <<>>, answers |-> <<>>, starts |-> 0 ]

\* The payloads of a run come from one of these sets of rows.
Pools ==
    { {1, 2, 9}, {1, 3, 4}, {5, 6, 12}, {2, 7, 8, 11}, {10} }

RacePools ==
    { {1, 2}, {5, 6}, {1, 4} }

\* two establishments that share a phone number: RowMoved, RowOther
HealPools == { {3, 4} }

\* rows taken by all calls together when two leads are created and both
\* are touched again
MaxHealRows == 4

\* the rows the calls of a run take together
RowLimit == IF pool \in HealPools THEN MaxHealRows ELSE MaxRows

Start ==
    /\ leads = <<>>
    /\ clock = 0
    /\ wk = [w \in Workers |-> IdleFrame]
    /\ tg = IdleToggle
    /\ toggles = 0
    /\ log = <<>>
    /\ taken = 0
    /\ agent = IdleAgent

\* no function under way: [done, raises, value]
NoResult == [done |-> FALSE, raises |-> FALSE, value |-> <<>>]

NoPure == fn = "" /\ arg = <<>> /\ res = NoResult

\* the addresses requests come from
IP_A == "10.0.0.1"

IP_B == "10.0.0.2"

IPs == {IP_A, IP_B}

NoRequest ==
    [ method |-> "", staff |-> FALSE, bearer |-> "", ip |-> "", body |-> "",
      len |-> 0, execution_id |-> "" ]

IdleView == [pc |-> "idle", view |-> "", req |-> NoRequest, run_id |-> 0, current |-> 0]

NoWeb ==
    /\ rq = [w \in Workers |-> IdleView]
    /\ runs = <<>>
    /\ cache = [ip \in IPs |-> 0]
    /\ admitted = [ip \in IPs |-> 0]
    /\ out = <<>>
    /\ requests = 0

Init == Start /\ NoPure /\ NoWeb /\ pool \in RacePools

SeqInit == Start /\ NoPure /\ NoWeb /\ pool \in Pools

\* the row at hand, normalised, and its key
Parsed(w) == wk[w].parsed

UniqueKey(w) == wk[w].unique_key

Event(kind, w, src, row, outcome, lead_id, count, conflict) ==
    [ kind |-> kind, w |-> w, src |-> src, row |-> row, outcome |-> outcome,
      lead |-> lead_id, count |-> count, conflict |-> conflict ]

RowEvent(w, row, outcome, lead_id, count) ==
    Event("row", w, wk[w].src, row, outcome, lead_id, count, wk[w].conflict)

\* back to the head of the loop over the rows
NextRow(f) ==
    [f EXCEPT !.pc = "next", !.row = 0, !.parsed = EmptyParsed(<<>>), !.unique_key = <<>>,
              !.lead_id = 0, !.lead = NoLead, !.changed = {},
              !.is_blocked = FALSE, !.conflict = FALSE]

\* the call ends with an exception
Raise(f, exc) ==
    [NextRow(f) EXCEPT !.pc = "idle", !.outcome = "raised", !.exc = exc]

\* .order_by("-last_seen_at").first(): a row of the greatest last_seen_at
MostRecent(ids) == {i \in ids : \A j \in ids : leads[j].last_seen_at <= leads[i].last_seen_at}

\* an empty incoming value leaves the stored value
Matched_KeepsStored(f, id, parsed, unique_key) ==
    LET old     == leads[id]
        keyDiff == IF old.unique_key # unique_key THEN {"unique_key"} ELSE {}
        diff    == {fld \in DefaultFields : old[fld] # parsed[fld] /\ parsed[fld] # <<>>}
        lead    == [fld \in LeadFields |->
                      IF fld = "unique_key" THEN unique_key
                      ELSE IF fld \in diff THEN parsed[fld]
                      ELSE old[fld]]
    IN  [f EXCEPT !.parsed = parsed, !.unique_key = unique_key,
                  !.lead_id = id, !.lead = lead, !.changed = keyDiff \cup diff,
                  !.pc = IF lead.representative_phone_norm # <<>> /\ ~lead.is_blocked_number
                         THEN "recheck" ELSE "save"]

\* lines 222-233: the diff of the matched lead against the row, on the
\* lead object read from the table
Matched(f, id, parsed, unique_key) ==
    LET old     == leads[id]
        keyDiff == IF old.unique_key # unique_key THEN {"unique_key"} ELSE {}
        diff    == {fld \in DefaultFields : old[fld] # parsed[fld]}
        lead    == [fld \in LeadFields |->
                      IF fld = "unique_key" THEN unique_key
                      ELSE IF fld \in DefaultFields THEN parsed[fld]
                      ELSE old[fld]]
    IN  [f EXCEPT !.parsed = parsed, !.unique_key = unique_key,
                  !.lead_id = id, !.lead = lead, !.changed = keyDiff \cup diff,
                  !.pc = IF lead.representative_phone_norm # <<>> /\ ~lead.is_blocked_number
                         THEN "recheck" ELSE "save"]

\* line 203: no lead matched; the blocked-phone query runs for a phone only
Unmatched(f, parsed) ==
    [f EXCEPT !.pc = IF parsed.representative_phone_norm # <<>> THEN "blocked" ELSE "create",
              !.is_blocked = FALSE]

(* ----------------------------- upsert_rows ----------------------------- *)

Call(w, src) ==
    /\ wk[w].pc = "idle"
    /\ taken < RowLimit
    /\ wk' = [wk EXCEPT ![w] = [IdleFrame EXCEPT !.pc = "next", !.src = src]]
    /\ UNCHANGED <<leads, clock, tg, toggles, log, pool, taken, pure, web, agent>>

\* lines 166-181: the loop takes the next row r of the payload; a row that
\* is no mapping is counted invalid, a row without values ignored, a usable
\* row is looked up by its unique_key
TakeRow(w, r) ==
    /\ wk[w].pc = "next"
    /\ taken < RowLimit
    /\ r \in pool
    /\ taken' = taken + 1
    /\ \E h \in {HeadOf(RowAt(r), Sources[wk[w].src])} :
         \E f \in {[wk[w] EXCEPT !.n = @ + 1, !.row = r]} :
           CASE h.kind = "invalid" ->
                  /\ wk' = [wk EXCEPT ![w] = NextRow([f EXCEPT !.invalid = @ + 1])]
                  /\ log' = Append(log, RowEvent(w, r, "invalid", 0, Len(leads)))
             [] h.kind = "raises" ->
                  /\ wk' = [wk EXCEPT ![w] = Raise(f, "ValueError")]
                  /\ log' = Append(log, RowEvent(w, r, "raised", 0, Len(leads)))
             [] h.kind = "ignored" ->
                  /\ wk' = [wk EXCEPT ![w] = NextRow([f EXCEPT !.ignored = @ + 1])]
                  /\ log' = Append(log, RowEvent(w, r, "ignored", 0, Len(leads)))
             [] h.kind = "usable" ->
                  /\ \E hits \in {{i \in Ids : leads[i].unique_key = h.unique_key}} :
                       IF hits # {}
                       THEN \E i \in hits :
                              wk' = [wk EXCEPT ![w] = Matched(f, i, h.parsed, h.unique_key)]
                       ELSE wk' = [wk EXCEPT ![w] = [f EXCEPT !.pc = "tier2", !.parsed = h.parsed,
                                                                !.unique_key = h.unique_key]]
                  /\ log' = log
    /\ UNCHANGED <<leads, clock, tg, toggles, pool, pure, web, agent>>

\* the phone lookup is run for a row with a phone only
Tier2_PhoneRequired(w) ==
    /\ wk[w].pc = "tier2"
    /\ LET parsed == Parsed(w)
           hits   == {i \in Ids :
                        /\ parsed.representative_phone_norm # <<>>
                        /\ leads[i].source = parsed.source
                        /\ IExact(leads[i].city, parsed.city)
                        /\ IExact(leads[i].establishment_name, parsed.establishment_name)
                        /\ leads[i].representative_phone_norm = parsed.representative_phone_norm}
       IN  IF hits # {}
           THEN \E i \in MostRecent(hits) :
                    wk' = [wk EXCEPT ![w] = Matched(wk[w], i, parsed, UniqueKey(w))]
           ELSE IF parsed.address # <<>>
                THEN wk' = [wk EXCEPT ![w].pc = "tier3"]
                ELSE wk' = [wk EXCEPT ![w] = Unmatched(wk[w], parsed)]
    /\ UNCHANGED <<leads, clock, tg, toggles, log, pool, taken, pure, web, agent>>

\* lines 182-191: source, city, establishment name and normalised phone
Tier2(w) ==
    /\ wk[w].pc = "tier2"
    /\ LET parsed == Parsed(w)
           hits   == {i \in Ids :
                        /\ leads[i].source = parsed.source
                        /\ IExact(leads[i].city, parsed.city)
                        /\ IExact(leads[i].establishment_name, parsed.establishment_name)
                        /\ leads[i].representative_phone_norm = parsed.representative_phone_norm}
       IN  IF hits # {}
           THEN \E i \in MostRecent(hits) :
                    wk' = [wk EXCEPT ![w] = Matched(wk[w], i, parsed, UniqueKey(w))]
           ELSE IF parsed.address # <<>>
                THEN wk' = [wk EXCEPT ![w].pc = "tier3"]
                ELSE wk' = [wk EXCEPT ![w] = Unmatched(wk[w], parsed)]
    /\ UNCHANGED <<leads, clock, tg, toggles, log, pool, taken, pure, web, agent>>

\* the address lookup finds nothing
Tier3_NoMatch(w) ==
    /\ wk[w].pc = "tier3"
    /\ wk' = [wk EXCEPT ![w] = Unmatched(wk[w], Parsed(w))]
    /\ UNCHANGED <<leads, clock, tg, toggles, log, pool, taken, pure, web, agent>>

\* lines 192-202: source, city, establishment name and address
Tier3(w) ==
    /\ wk[w].pc = "tier3"
    /\ LET parsed == Parsed(w)
           hits   == {i \in Ids :
                        /\ leads[i].source = parsed.source
                        /\ IExact(leads[i].city, parsed.city)
                        /\ IExact(leads[i].establishment_name, parsed.establishment_name)
                        /\ IExact(leads[i].address, parsed.address)}
       IN  IF hits # {}
           THEN \E i \in MostRecent(hits) :
                    wk' = [wk EXCEPT ![w] = Matched(wk[w], i, parsed, UniqueKey(w))]
           ELSE wk' = [wk EXCEPT ![w] = Unmatched(wk[w], parsed)]
    /\ UNCHANGED <<leads, clock, tg, toggles, log, pool, taken, pure, web, agent>>

\* the blocked leads, whatever their phone
BlockedWithPhone_AnyNumber(phone) ==
    {i \in Ids : leads[i].is_blocked_number}

\* .filter(representative_phone_norm=phone, is_blocked_number=True)
BlockedWithPhone(phone) ==
    {i \in Ids : leads[i].representative_phone_norm = phone /\ leads[i].is_blocked_number}

\* lines 204-210: does a blocked lead have this phone
BlockedQuery(w) ==
    /\ wk[w].pc = "blocked"
    /\ wk' = [wk EXCEPT ![w].is_blocked = BlockedWithPhone(Parsed(w).representative_phone_norm) # {},
                        ![w].pc = "create"]
    /\ UNCHANGED <<leads, clock, tg, toggles, log, pool, taken, pure, web, agent>>

\* no constraint on unique_key: no write ever collides
KeyHolders_Unenforced(key, id) == {}

\* the UNIQUE constraint of unique_key: rows other than id that hold the key
KeyHolders(key, id) == {i \in Ids : i # id /\ leads[i].unique_key = key}

\* lines 211-220: MacroLead.objects.create succeeds
\* the lead is stored and the created counter is left as it was
CreateOk_Uncounted(w) ==
    /\ wk[w].pc = "create"
    /\ KeyHolders(UniqueKey(w), 0) = {}
    /\ leads' = Append(leads, NewLead(Parsed(w), UniqueKey(w), wk[w].is_blocked, clock + 1))
    /\ clock' = clock + 1
    /\ wk' = [wk EXCEPT ![w] = NextRow(wk[w])]
    /\ log' = Append(log, RowEvent(w, wk[w].row, "created", Len(leads) + 1, Len(leads) + 1))
    /\ UNCHANGED <<tg, toggles, pool, taken, pure, web, agent>>

CreateOk(w) ==
    /\ wk[w].pc = "create"
    /\ KeyHolders(UniqueKey(w), 0) = {}
    /\ leads' = Append(leads, NewLead(Parsed(w), UniqueKey(w), wk[w].is_blocked, clock + 1))
    /\ clock' = clock + 1
    /\ wk' = [wk EXCEPT ![w] = NextRow([wk[w] EXCEPT !.created = @ + 1])]
    /\ log' = Append(log, RowEvent(w, wk[w].row, "created", Len(leads) + 1, Len(leads) + 1))
    /\ UNCHANGED <<tg, toggles, pool, taken, pure, web, agent>>

\* line 211: MacroLead.objects.create raises IntegrityError
CreateIntegrityError(w) ==
    /\ wk[w].pc = "create"
    /\ KeyHolders(UniqueKey(w), 0) # {}
    /\ wk' = [wk EXCEPT ![w] = Raise(wk[w], "IntegrityError")]
    /\ log' = Append(log, RowEvent(w, wk[w].row, "create failed", 0, Len(leads)))
    /\ UNCHANGED <<leads, clock, tg, toggles, pool, taken, pure, web, agent>>

\* the matched lead is saved without the query for its phone
Recheck_Skipped(w) ==
    /\ wk[w].pc = "recheck"
    /\ wk' = [wk EXCEPT ![w].pc = "save"]
    /\ UNCHANGED <<leads, clock, tg, toggles, log, pool, taken, pure, web, agent>>

\* the answer of the query is written whatever it is
Recheck_WritesAnswer(w) ==
    /\ wk[w].pc = "recheck"
    /\ LET others == BlockedWithPhone(wk[w].lead.representative_phone_norm) \ {wk[w].lead_id}
       IN  wk' = [wk EXCEPT ![w].pc = "save",
                            ![w].lead.is_blocked_number = (others # {}),
                            ![w].changed = @ \cup {"is_blocked_number"}]
    /\ UNCHANGED <<leads, clock, tg, toggles, log, pool, taken, pure, web, agent>>

\* the block is set on the lead object and not written
Recheck_NotWritten(w) ==
    /\ wk[w].pc = "recheck"
    /\ LET others == BlockedWithPhone(wk[w].lead.representative_phone_norm) \ {wk[w].lead_id}
       IN  wk' = [wk EXCEPT ![w].pc = "save",
                            ![w].lead.is_blocked_number = (others # {})]
    /\ UNCHANGED <<leads, clock, tg, toggles, log, pool, taken, pure, web, agent>>

\* lines 232-239: the matched lead takes the block of its phone
Recheck(w) ==
    /\ wk[w].pc = "recheck"
    /\ LET others == BlockedWithPhone(wk[w].lead.representative_phone_norm) \ {wk[w].lead_id}
       IN  wk' = [wk EXCEPT ![w].pc = "save",
                            ![w].lead.is_blocked_number = (others # {}),
                            ![w].changed = IF others # {} THEN @ \cup {"is_blocked_number"} ELSE @]
    /\ UNCHANGED <<leads, clock, tg, toggles, log, pool, taken, pure, web, agent>>

\* lead.save(): every column is written from the lead object
Saved_WholeRow(id, lead, fields, now) ==
    [leads EXCEPT ![id] = [lead EXCEPT !.last_seen_at = now]]

\* lead.save(update_fields=fields): the UPDATE of one row; last_seen_at is
\* auto_now and takes the time of the save
Saved(id, lead, fields, now) ==
    [leads EXCEPT ![id] = [fld \in LeadFields |->
                             IF fld = "last_seen_at" THEN now
                             ELSE IF fld \in fields THEN lead[fld]
                             ELSE leads[id][fld]]]

\* line 244 raises IntegrityError: another row holds the key being written
SaveCollides(w) ==
    /\ "unique_key" \in wk[w].changed
    /\ KeyHolders(wk[w].lead.unique_key, wk[w].lead_id) # {}

\* lines 241-244 and 252: the save succeeds
SaveOk(w) ==
    /\ wk[w].pc = "save"
    /\ ~SaveCollides(w)
    /\ leads' = Saved(wk[w].lead_id, wk[w].lead, wk[w].changed, clock + 1)
    /\ clock' = clock + 1
    /\ wk' = [wk EXCEPT ![w] = NextRow([wk[w] EXCEPT !.updated = @ + 1])]
    /\ log' = Append(log, RowEvent(w, wk[w].row, "updated", wk[w].lead_id, Len(leads)))
    /\ UNCHANGED <<tg, toggles, pool, taken, pure, web, agent>>

\* lines 245-248: the save raises IntegrityError and the key is suffixed
SaveConflict(w) ==
    /\ wk[w].pc = "save"
    /\ SaveCollides(w)
    /\ wk' = [wk EXCEPT ![w].pc = "retry", ![w].conflict = TRUE,
                        ![w].lead.unique_key = SuffixedKey(UniqueKey(w), wk[w].lead_id)]
    /\ UNCHANGED <<leads, clock, tg, toggles, log, pool, taken, pure, web, agent>>

\* line 249: the second save, outside any try
Retry(w) ==
    /\ wk[w].pc = "retry"
    /\ IF SaveCollides(w)
       THEN /\ wk' = [wk EXCEPT ![w] = Raise(wk[w], "IntegrityError")]
            /\ log' = Append(log, RowEvent(w, wk[w].row, "save failed", wk[w].lead_id, Len(leads)))
            /\ UNCHANGED <<leads, clock>>
       ELSE /\ leads' = Saved(wk[w].lead_id, wk[w].lead, wk[w].changed, clock + 1)
            /\ clock' = clock + 1
            /\ wk' = [wk EXCEPT ![w] = NextRow([wk[w] EXCEPT !.updated = @ + 1])]
            /\ log' = Append(log, RowEvent(w, wk[w].row, "updated", wk[w].lead_id, Len(leads)))
    /\ UNCHANGED <<tg, toggles, pool, taken, pure, web, agent>>

\* lines 254-260: the rows are exhausted and the counts are returned
Return(w) ==
    /\ wk[w].pc = "next"
    /\ wk' = [wk EXCEPT ![w].pc = "idle", ![w].outcome = "returned"]
    /\ UNCHANGED <<leads, clock, tg, toggles, log, pool, taken, pure, web, agent>>

\* processed counts the stored rows only
Result_StoredOnly(f) ==
    [ created |-> f.created, updated |-> f.updated, ignored |-> f.ignored,
      invalid |-> f.invalid, processed |-> f.created + f.updated ]

\* the dict upsert_rows returns
Result(f) ==
    [ created |-> f.created, updated |-> f.updated, ignored |-> f.ignored,
      invalid |-> f.invalid,
      processed |-> f.created + f.updated + f.ignored + f.invalid ]

(* ------------------------ macro_toggle_phone_block --------------------- *)

\* lines 584-590: the lead is read, now is taken, the phone is kept
ToggleGet(id, blocked) ==
    /\ tg.pc = "idle"
    /\ toggles < MaxToggles
    /\ id \in Ids
    /\ tg' = [pc |-> "update", lead_id |-> id, blocked |-> blocked,
              phone_norm |-> Strip(leads[id].representative_phone_norm), now |-> clock + 1]
    /\ clock' = clock + 1
    /\ toggles' = toggles + 1
    /\ UNCHANGED <<leads, wk, log, pool, taken, pure, web, agent>>

\* only the lead of the request
Affected_OnlyClicked == {tg.lead_id}

\* the rows `affected` selects when the UPDATE runs
Affected ==
    IF tg.phone_norm # <<>>
    THEN {i \in Ids : leads[i].representative_phone_norm = tg.phone_norm}
    ELSE {tg.lead_id}

\* line 592: affected.update(is_blocked_number=blocked, last_seen_at=now)
ToggleUpdate ==
    /\ tg.pc = "update"
    /\ leads' = [i \in Ids |->
                   IF i \in Affected
                   THEN [leads[i] EXCEPT !.is_blocked_number = tg.blocked, !.last_seen_at = tg.now]
                   ELSE leads[i]]
    /\ log' = Append(log, Event("toggle", 0, 1, 0, IF tg.blocked THEN "blocked" ELSE "unblocked",
                                tg.lead_id, Len(leads), FALSE))
    /\ tg' = IdleToggle
    /\ UNCHANGED <<clock, wk, toggles, pool, taken, pure, web, agent>>

(* ---------------------------- specifications --------------------------- *)

RowIds == 1..12

SourceIds == 1..Len(Sources)

\* Concurrent requests to the import API: every query and every write of a
\* request is one step.
Next ==
    \/ \E w \in Workers : Call(w, 1)
    \/ \E w \in Workers, r \in RowIds : TakeRow(w, r)
    \/ \E w \in Workers : Tier2(w)
    \/ \E w \in Workers : Tier3(w)
    \/ \E w \in Workers : BlockedQuery(w)
    \/ \E w \in Workers : CreateOk(w)
    \/ \E w \in Workers : CreateIntegrityError(w)
    \/ \E w \in Workers : Recheck(w)
    \/ \E w \in Workers : SaveOk(w)
    \/ \E w \in Workers : SaveConflict(w)
    \/ \E w \in Workers : Retry(w)
    \/ \E w \in Workers : Return(w)

Spec == Init /\ [][Next]_vars

\* One request at a time: a request runs from its start to its end before
\* another starts.
Quiet == tg.pc = "idle" /\ \A w \in Workers : wk[w].pc = "idle"

SeqNext ==
    \/ Quiet /\ \E src \in SourceIds : Call(1, src)
    \/ \E r \in RowIds : TakeRow(1, r)
    \/ Tier2(1)
    \/ Tier3(1)
    \/ BlockedQuery(1)
    \/ CreateOk(1)
    \/ Recheck(1)
    \/ SaveOk(1)
    \/ Return(1)
    \/ Quiet /\ \E id \in Ids, blocked \in BOOLEAN : ToggleGet(id, blocked)
    \/ ToggleUpdate

SeqSpec == SeqInit /\ [][SeqNext]_vars

\* the rows of a request that runs while a number is blocked or unblocked
MixPools == { {1, 2}, {1, 3, 4} }

MixInit == Start /\ NoPure /\ NoWeb /\ pool \in MixPools

\* An import request and block/unblock requests side by side: every query
\* and every write is one step, in any interleaving.
MixNext ==
    \/ Call(1, 1)
    \/ \E r \in RowIds : TakeRow(1, r)
    \/ Tier2(1)
    \/ Tier3(1)
    \/ BlockedQuery(1)
    \/ CreateOk(1)
    \/ Recheck(1)
    \/ SaveOk(1)
    \/ Return(1)
    \/ \E id \in Ids, blocked \in BOOLEAN : ToggleGet(id, blocked)
    \/ ToggleUpdate

MixSpec == MixInit /\ [][MixNext]_vars

HealInit == Start /\ NoPure /\ NoWeb /\ pool \in HealPools

\* The same requests side by side, over two establishments of one phone
\* number: a lead created while the number is being blocked or unblocked
\* is left with the other flag.
HealSpec == HealInit /\ [][MixNext]_vars


(* ------------------------ the views of views.py ------------------------ *)

\* requests received by all views together
MaxRequests == 2

\* the clock value after which no more time is let pass
MaxClock == 8

\* settings as tests.py sets them for the API tests
MACRO_API_TOKEN == "token123"

MACRO_API_ALLOWED_IPS == {IP_A}

MACRO_API_RATE_LIMIT_PER_MINUTE == 1

\* minutes after which a run still "running" counts as abandoned
MACRO_RUN_STALE_MINUTES == 1

\* MacroRun.objects.create(run_type=, status="running", source=, request_ip=)
NewRun(run_type, req, now) ==
    [ run_type |-> run_type, status |-> "running", source |-> run_type,
      started_at |-> now, finished_at |-> 0, triggered_by |-> req.staff,
      request_ip |-> req.ip, total_collected |-> 0, total_received |-> 0,
      total_sent |-> 0, created_count |-> 0, updated_count |-> 0,
      ignored_count |-> 0, invalid_count |-> 0, message |-> "",
      pages_processed |-> 0, execution_id |-> "", total_deduplicated |-> 0 ]

\* the run saved with status "error" and a message
FailedRun(run, message, now) ==
    [run EXCEPT !.status = "error", !.message = message, !.finished_at = now]

\* the run saved with the counts upsert_rows returned
SucceededRun(run, result, message, now) ==
    [run EXCEPT !.status = "success", !.finished_at = now,
                !.total_collected = result.processed, !.total_received = result.processed,
                !.created_count = result.created, !.updated_count = result.updated,
                !.ignored_count = result.ignored, !.invalid_count = result.invalid,
                !.message = message]

\* a POST with the token, from the allowed address, with one row
ApiPost ==
    [ method |-> "POST", staff |-> FALSE, bearer |-> "token123", ip |-> IP_A,
      body |-> "rows", len |-> 1, execution_id |-> "" ]

\* the requests macro_api_import is sent
ApiRequests ==
    { ApiPost,
      [ApiPost EXCEPT !.execution_id = "exec-batch-1"],
      [ApiPost EXCEPT !.method = "GET"],
      [ApiPost EXCEPT !.bearer = "wrong"],
      [ApiPost EXCEPT !.bearer = "", !.staff = TRUE],
      [ApiPost EXCEPT !.ip = IP_B],
      [ApiPost EXCEPT !.body = "invalid", !.len = 0],
      [ApiPost EXCEPT !.len = 0] }

\* an upload by a logged-in member of staff
CsvPost ==
    [ method |-> "POST", staff |-> TRUE, bearer |-> "", ip |-> IP_A,
      body |-> "rows", len |-> 1, execution_id |-> "" ]

\* the requests macro_import_csv is sent
CsvRequests ==
    { CsvPost,
      [CsvPost EXCEPT !.len = 0],
      [CsvPost EXCEPT !.method = "GET"],
      [CsvPost EXCEPT !.body = "nofile", !.len = 0],
      [CsvPost EXCEPT !.body = "noheader", !.len = 0] }

_staff_or_token(req) ==
    \/ req.staff
    \/ /\ MACRO_API_TOKEN # ""
       /\ req.bearer # ""
       /\ req.bearer = MACRO_API_TOKEN

_ip_allowed(req) ==
    MACRO_API_ALLOWED_IPS = {} \/ req.ip \in MACRO_API_ALLOWED_IPS

\* a response, with what the request was and when it was given
Resp(view, w, status, run_id, req, now) ==
    [ view |-> view, w |-> w, status |-> status, run |-> run_id, ip |-> req.ip,
      execution_id |-> req.execution_id, at |-> now ]

\* the handler a request is given: the first that is free
FreeHandler(w) == rq[w].pc = "idle" /\ \A v \in Workers : v < w => rq[v].pc # "idle"

\* lines 713-719 and 175-181: the checks of the request, and cache.get
ApiReceive(w, req) ==
    /\ FreeHandler(w)
    /\ requests < MaxRequests
    /\ requests' = requests + 1
    /\ IF req.method # "POST"
       THEN /\ out' = Append(out, Resp("api", w, 405, 0, req, clock))
            /\ rq' = rq
       ELSE IF ~_staff_or_token(req)
       THEN /\ out' = Append(out, Resp("api", w, 401, 0, req, clock))
            /\ rq' = rq
       ELSE IF ~_ip_allowed(req)
       THEN /\ out' = Append(out, Resp("api", w, 403, 0, req, clock))
            /\ rq' = rq
       ELSE /\ out' = out
            /\ rq' = [rq EXCEPT ![w] = [pc |-> "rate", view |-> "api", req |-> req,
                                        run_id |-> 0, current |-> cache[req.ip]]]
    /\ UNCHANGED <<leads, clock, wk, tg, toggles, log, pool, taken, pure, runs, cache, admitted, agent>>

\* the run is created before the limit is looked at
ApiRate_AfterRun(w) ==
    /\ rq[w].pc = "rate"
    /\ LET ip  == rq[w].req.ip
           cur == rq[w].current
       IN  IF MACRO_API_RATE_LIMIT_PER_MINUTE > 0 /\ cur # 0
              /\ cur >= MACRO_API_RATE_LIMIT_PER_MINUTE
           THEN /\ out' = Append(out, Resp("api", w, 429, Len(runs) + 1, rq[w].req, clock))
                /\ runs' = Append(runs, NewRun("api", rq[w].req, clock))
                /\ rq' = [rq EXCEPT ![w] = IdleView]
                /\ UNCHANGED <<cache, admitted>>
           ELSE /\ cache' = IF cur = 0 THEN [cache EXCEPT ![ip] = 1] ELSE [cache EXCEPT ![ip] = @ + 1]
                /\ admitted' = [admitted EXCEPT ![ip] = @ + 1]
                /\ rq' = [rq EXCEPT ![w].pc = "run"]
                /\ out' = out
                /\ runs' = runs
    /\ UNCHANGED <<leads, clock, wk, tg, toggles, log, pool, taken, pure, requests, agent>>

\* lines 182-191 and 720-721: _rate_limited after cache.get
ApiRate(w) ==
    /\ rq[w].pc = "rate"
    /\ LET ip  == rq[w].req.ip
           cur == rq[w].current
       IN  IF MACRO_API_RATE_LIMIT_PER_MINUTE > 0 /\ cur # 0
              /\ cur >= MACRO_API_RATE_LIMIT_PER_MINUTE
           THEN /\ out' = Append(out, Resp("api", w, 429, 0, rq[w].req, clock))
                /\ rq' = [rq EXCEPT ![w] = IdleView]
                /\ UNCHANGED <<cache, admitted>>
           ELSE /\ cache' = IF MACRO_API_RATE_LIMIT_PER_MINUTE <= 0 THEN cache
                            ELSE IF cur = 0 THEN [cache EXCEPT ![ip] = 1]
                            ELSE IF cache[ip] = 0 THEN [cache EXCEPT ![ip] = cur + 1]
                            ELSE [cache EXCEPT ![ip] = @ + 1]
                /\ admitted' = [admitted EXCEPT ![ip] = @ + 1]
                /\ rq' = [rq EXCEPT ![w].pc = "run"]
                /\ out' = out
    /\ UNCHANGED <<leads, clock, wk, tg, toggles, log, pool, taken, pure, runs, requests, agent>>

\* lines 723-746: the run is created and the payload read
ApiBegin(w) ==
    /\ rq[w].pc = "run"
    /\ LET req == rq[w].req
           run == NewRun("api", req, clock + 1)
       IN  IF req.body = "invalid"
           THEN /\ runs' = Append(runs, FailedRun(run, "JSON invalido.", clock + 2))
                /\ clock' = clock + 2
                /\ out' = Append(out, Resp("api", w, 400, Len(runs) + 1, req, clock + 2))
                /\ rq' = [rq EXCEPT ![w] = IdleView]
           ELSE IF req.len = 0
           THEN /\ runs' = Append(runs, FailedRun(run, "Payload sem linhas.", clock + 2))
                /\ clock' = clock + 2
                /\ out' = Append(out, Resp("api", w, 400, Len(runs) + 1, req, clock + 2))
                /\ rq' = [rq EXCEPT ![w] = IdleView]
           ELSE /\ runs' = Append(runs, run)
                /\ clock' = clock + 1
                /\ out' = out
                /\ rq' = [rq EXCEPT ![w].pc = "call", ![w].run_id = Len(runs) + 1]
    /\ UNCHANGED <<leads, wk, tg, toggles, log, pool, taken, pure, cache, admitted, requests, agent>>

\* lines 748-781: upsert_rows has returned or raised
ApiFinish(w) ==
    /\ rq[w].pc = "call" /\ rq[w].view = "api"
    /\ wk[w].pc = "idle" /\ wk[w].outcome \in {"returned", "raised"}
    /\ LET id  == rq[w].run_id
           req == rq[w].req
       IN  IF wk[w].outcome = "raised"
           THEN /\ runs' = [runs EXCEPT ![id] =
                              [FailedRun(@, "Erro interno ao processar lote da API.", clock + 1)
                                 EXCEPT !.total_collected = req.len]]
                /\ out' = Append(out, Resp("api", w, 500, id, req, clock + 1))
           ELSE /\ runs' = [runs EXCEPT ![id] =
                              SucceededRun(@, Result(wk[w]), "Importacao API concluida.", clock + 1)]
                /\ out' = Append(out, Resp("api", w, 200, id, req, clock + 1))
    /\ clock' = clock + 1
    /\ rq' = [rq EXCEPT ![w] = IdleView]
    /\ wk' = [wk EXCEPT ![w] = IdleFrame]
    /\ UNCHANGED <<leads, tg, toggles, log, pool, taken, pure, cache, admitted, requests, agent>>

\* lines 410-457: the run is created and the upload read
CsvReceive(w, req) ==
    /\ FreeHandler(w)
    /\ requests < MaxRequests
    /\ requests' = requests + 1
    /\ LET run == NewRun("csv", req, clock + 1)
       IN  IF req.method # "POST"
           THEN /\ out' = Append(out, Resp("csv", w, 302, 0, req, clock))
                /\ UNCHANGED <<runs, clock, rq>>
           ELSE IF req.body = "nofile"
           THEN /\ runs' = Append(runs, FailedRun(run, "Arquivo CSV nao enviado.", clock + 2))
                /\ clock' = clock + 2
                /\ out' = Append(out, Resp("csv", w, 302, Len(runs) + 1, req, clock + 2))
                /\ rq' = rq
           ELSE IF req.body = "noheader"
           THEN /\ runs' = Append(runs, FailedRun(run, "CSV sem cabecalho.", clock + 2))
                /\ clock' = clock + 2
                /\ out' = Append(out, Resp("csv", w, 302, Len(runs) + 1, req, clock + 2))
                /\ rq' = rq
           ELSE /\ runs' = Append(runs, run)
                /\ clock' = clock + 1
                /\ out' = out
                /\ rq' = [rq EXCEPT ![w] = [pc |-> "call", view |-> "csv", req |-> req,
                                            run_id |-> Len(runs) + 1, current |-> 0]]
    /\ UNCHANGED <<leads, wk, tg, toggles, log, pool, taken, pure, cache, admitted, agent>>

\* lines 459-490: upsert_rows has returned; an exception of upsert_rows
\* leaves the view at line 459
CsvFinish(w) ==
    /\ rq[w].pc = "call" /\ rq[w].view = "csv"
    /\ wk[w].pc = "idle" /\ wk[w].outcome \in {"returned", "raised"}
    /\ LET id  == rq[w].run_id
           req == rq[w].req
       IN  IF wk[w].outcome = "raised"
           THEN /\ out' = Append(out, Resp("csv", w, 500, id, req, clock))
                /\ UNCHANGED <<runs, clock>>
           ELSE /\ runs' = [runs EXCEPT ![id] =
                              SucceededRun(@, Result(wk[w]), "Importacao CSV concluida.", clock + 1)]
                /\ clock' = clock + 1
                /\ out' = Append(out, Resp("csv", w, 302, id, req, clock + 1))
    /\ rq' = [rq EXCEPT ![w] = IdleView]
    /\ wk' = [wk EXCEPT ![w] = IdleFrame]
    /\ UNCHANGED <<leads, tg, toggles, log, pool, taken, pure, cache, admitted, requests, agent>>

\* lines 319-346: macro_collect reads the runs and the leads and renders
CollectPage ==
    /\ requests < MaxRequests
    /\ requests' = requests + 1
    /\ clock' = clock + 1
    /\ out' = Append(out, Resp("collect", 0, 200, 0, [CsvPost EXCEPT !.method = "GET"], clock + 1))
    /\ UNCHANGED <<leads, wk, tg, toggles, log, pool, taken, pure, rq, runs, cache, admitted, agent>>

\* more than MACRO_RUN_STALE_MINUTES pass with no request being served
TimePasses ==
    /\ \A w \in Workers : rq[w].pc = "idle"
    /\ clock + MACRO_RUN_STALE_MINUTES + 1 <= MaxClock
    /\ clock' = clock + MACRO_RUN_STALE_MINUTES + 1
    /\ UNCHANGED <<leads, wk, tg, toggles, log, pool, taken, pure, web, agent>>

\* timeout=60: the cache entry of an address expires
CacheExpire(ip) ==
    /\ \A w \in Workers : rq[w].pc = "idle"
    /\ cache[ip] # 0
    /\ cache' = [cache EXCEPT ![ip] = 0]
    /\ admitted' = [admitted EXCEPT ![ip] = 0]
    /\ UNCHANGED <<leads, clock, wk, tg, toggles, log, pool, taken, pure, rq, runs, out, requests, agent>>

\* the rows of the payloads and uploads: RowDigits, RowBadDate
WebPools == { {2, 8} }

WebInit == Start /\ NoPure /\ NoWeb /\ pool \in WebPools

\* default_source of the view that calls upsert_rows
SourceOf(view) == IF view = "csv" THEN 2 ELSE 1

\* Requests to the views side by side, their checks and their writes of the
\* runs interleaved; the calls of upsert_rows follow one another (Spec has
\* them side by side).
WebNext ==
    \/ \E w \in Workers, req \in ApiRequests : ApiReceive(w, req)
    \/ \E w \in Workers : ApiRate(w)
    \/ \E w \in Workers : ApiBegin(w)
    \/ \E w \in Workers : ApiFinish(w)
    \/ \E w \in Workers, req \in CsvRequests : CsvReceive(w, req)
    \/ \E w \in Workers : CsvFinish(w)
    \/ CollectPage
    \/ TimePasses
    \/ \E ip \in IPs : CacheExpire(ip)
    \/ \E w \in Workers :
          /\ rq[w].pc = "call" /\ wk[w].outcome = "none"
          /\ \A v \in Workers : wk[v].pc = "idle"
          /\ Call(w, SourceOf(rq[w].view))
    \/ \E w \in Workers, r \in RowIds : wk[w].n < rq[w].req.len /\ TakeRow(w, r)
    \/ \E w \in Workers : Tier2(w)
    \/ \E w \in Workers : BlockedQuery(w)
    \/ \E w \in Workers : CreateOk(w)
    \/ \E w \in Workers : Recheck(w)
    \/ \E w \in Workers : SaveOk(w)
    \/ \E w \in Workers : wk[w].n = rq[w].req.len /\ Return(w)

WebSpec == WebInit /\ [][WebNext]_vars

(* ------------------------ local_macro_agent.py ------------------------- *)

\* /start requests received by the agent
MaxStarts == 3

\* the job threads started and not finished
LiveJobs == {j \in 1..Len(agent.jobs) : agent.jobs[j] # "finished"}

\* _send_json({"ok": started, ...}, status=OK if started else CONFLICT)
Answer(h, started) ==
    [ h |-> h, status |-> IF started THEN 200 ELSE 409, live |-> Cardinality(LiveJobs) ]

\* /prepare: _ensure_browser_session leaves a driver that answers, or none
\* when build_driver fails
Prepare(ok) ==
    /\ agent' = [agent EXCEPT !.driver = IF @ = "open" THEN "open"
                                         ELSE IF ok THEN "open" ELSE "none"]
    /\ UNCHANGED <<leads, clock, wk, tg, toggles, log, pool, taken, pure, web>>

\* the browser window is closed: driver.current_url raises from now on
BrowserCloses ==
    /\ agent.driver = "open"
    /\ agent' = [agent EXCEPT !.driver = "dead"]
    /\ UNCHANGED <<leads, clock, wk, tg, toggles, log, pool, taken, pure, web>>

\* lines 172-174: _start_job takes the snapshot of STATE and looks at running
StartSnapshot(h, config) ==
    /\ agent.hd[h].pc = "idle"
    /\ agent.starts < MaxStarts
    /\ IF agent.running
       THEN agent' = [agent EXCEPT !.starts = @ + 1,
                                   !.answers = Append(@, Answer(h, FALSE))]
       ELSE agent' = [agent EXCEPT !.starts = @ + 1,
                                   !.hd[h] = [pc |-> "checks", config |-> config]]
    /\ UNCHANGED <<leads, clock, wk, tg, toggles, log, pool, taken, pure, web>>

\* lines 175-190: the form and the browser are checked and the thread started
StartChecks(h) ==
    /\ agent.hd[h].pc = "checks"
    /\ LET config == agent.hd[h].config
           idle   == [pc |-> "idle", config |-> NoConfig]
       IN  IF ~config.api_url \/ ~config.api_token \/ agent.driver = "none"
           THEN agent' = [agent EXCEPT !.hd[h] = idle,
                                       !.answers = Append(@, Answer(h, FALSE))]
           ELSE IF agent.driver = "dead"
           THEN agent' = [agent EXCEPT !.hd[h] = idle, !.driver = "none",
                                       !.answers = Append(@, Answer(h, FALSE))]
           ELSE agent' = [agent EXCEPT !.hd[h] = idle,
                                       !.jobs = Append(@, "started"),
                                       !.answers = Append(@, Answer(h, TRUE))]
    /\ UNCHANGED <<leads, clock, wk, tg, toggles, log, pool, taken, pure, web>>

\* lines 108-115: the thread's first statement, _update_state(running=True, ...)
JobBegin(j) ==
    /\ j \in 1..Len(agent.jobs)
    /\ agent.jobs[j] = "started"
    /\ agent' = [agent EXCEPT !.jobs[j] = "running", !.running = TRUE,
                              !.last_status = "running"]
    /\ UNCHANGED <<leads, clock, wk, tg, toggles, log, pool, taken, pure, web>>

\* lines 116-123 and 160-168: the thread looks for the browser session; without
\* one it raises and ends with last_status "error"
JobSession(j) ==
    /\ j \in 1..Len(agent.jobs)
    /\ agent.jobs[j] = "running"
    /\ IF agent.driver = "open"
       THEN agent' = [agent EXCEPT !.jobs[j] = "collecting"]
       ELSE agent' = [agent EXCEPT !.jobs[j] = "finished", !.driver = "none",
                                   !.running = FALSE, !.last_status = "error"]
    /\ UNCHANGED <<leads, clock, wk, tg, toggles, log, pool, taken, pure, web>>

\* lines 125-168: run_with_metrics returns or raises, and the thread ends with
\* _update_state(running=False, last_status=...)
JobEnd(j, last_status) ==
    /\ j \in 1..Len(agent.jobs)
    /\ agent.jobs[j] = "collecting"
    /\ agent' = [agent EXCEPT !.jobs[j] = "finished", !.running = FALSE,
                              !.last_status = last_status]
    /\ UNCHANGED <<leads, clock, wk, tg, toggles, log, pool, taken, pure, web>>

AgentInit == Start /\ NoPure /\ NoWeb /\ pool = {}

\* The agent's request threads and job threads side by side.
AgentNext ==
    \/ \E ok \in BOOLEAN : Prepare(ok)
    \/ BrowserCloses
    \/ \E h \in AgentHandlers, config \in Configs : StartSnapshot(h, config)
    \/ \E h \in AgentHandlers : StartChecks(h)
    \/ \E j \in 1..MaxStarts : JobBegin(j)
    \/ \E j \in 1..MaxStarts : JobSession(j)
    \/ \E j \in 1..MaxStarts, last_status \in {"success", "error"} : JobEnd(j, last_status)

AgentSpec == AgentInit /\ [][AgentNext]_vars

(* ------------------- functions applied on their own -------------------- *)

\* the parts of the date and time values tried
DateYears == { <<"2", "0", "2", "6">>, <<"2", "0", "2", "4">> }

DateMonths == { <<"0", "2">>, <<"1", "3">>, <<"0", "0">> }

DateDays == { <<"0", "2">>, <<"2", "9">>, <<"3", "0">>, <<"0", "0">> }

DateSeps == { <<" ">>, <<"T">> }

TimeHours == { <<"1", "3">>, <<"2", "4">> }

TimeMinutes == { <<"4", "5">>, <<"6", "0">> }

TimeSeconds == { <<>>, <<":", "2", "0">>, <<":", "6", "1">> }

TimeZones == { <<>>, <<" ", "U", "T", "C", "-", "3">>, <<"Z">>, <<"+", "0", "3", ":", "0", "0">> }

\* values that are no date and time at all
OtherDateInputs ==
    { <<>>, <<" ", " ">>, <<"a", "b", "c">>, <<"2", "0", "2", "6", "-", "0", "2", "-", "0", "2">>,
      <<"2", "0", "2", "6", "-", "0", "2", "-", "3", "0">>, <<"3", "0", "/", "0", "2", "/", "2", "0", "2", "6">> }

DateInputs ==
    { y \o <<"-">> \o m \o <<"-">> \o d \o sep \o h \o <<":">> \o mi \o sec \o tz :
        y \in DateYears, m \in DateMonths, d \in DateDays, sep \in DateSeps,
        h \in TimeHours, mi \in TimeMinutes, sec \in TimeSeconds, tz \in TimeZones }
    \cup OtherDateInputs

\* the longest run of one digit in a phone value tried
MaxPhoneRun == 12

PhoneHeads ==
    { <<>>, <<"5", "5">>, <<"5">>, <<"1", "5">>, <<"(", "5", "5", ")">>,
      <<"+", "5", "5", " ">>, <<"5", "-", "5">> }

PhoneTails == { <<>>, <<"-", "0">>, <<" ", "x">> }

PhoneInputs ==
    { p \o Rep("9", n) \o t : p \in PhoneHeads, n \in 0..MaxPhoneRun, t \in PhoneTails }

PureInit ==
    /\ Start
    /\ NoWeb
    /\ pool = {}
    /\ res = NoResult
    /\ \/ fn = "parse_lead_datetime" /\ arg \in DateInputs
       \/ fn = "normalize_phone" /\ arg \in PhoneInputs

\* parse_lead_datetime(arg)
ParseLeadDatetime ==
    /\ fn = "parse_lead_datetime"
    /\ ~res.done
    /\ \E r \in {parse_lead_datetime(arg)} :
          res' = [done |-> TRUE, raises |-> r.raises, value |-> r.value]
    /\ UNCHANGED <<leads, clock, wk, tg, toggles, log, pool, taken, fn, arg, web, agent>>

\* normalize_phone(arg)
NormalizePhone ==
    /\ fn = "normalize_phone"
    /\ ~res.done
    /\ \E r \in {normalize_phone(arg)} :
          res' = [done |-> TRUE, raises |-> FALSE, value |-> r]
    /\ UNCHANGED <<leads, clock, wk, tg, toggles, log, pool, taken, fn, arg, web, agent>>

PureNext == ParseLeadDatetime \/ NormalizePhone

PureSpec == PureInit /\ [][PureNext]_vars

(* ------------------------------ properties ----------------------------- *)

RowEvents == {i \in 1..Len(log) : log[i].kind = "row"}

\* C1: when two calls race on the same unique_key, the call whose create
\* hits the uniqueness violation does not raise but treats its row as an
\* update: no create ever ends its call with the IntegrityError.
C1_CreateRaceRecovered ==
    \A i \in RowEvents : log[i].outcome # "create failed"

SamePhone(i, j) ==
    /\ leads[i].representative_phone_norm # <<>>
    /\ leads[i].representative_phone_norm = leads[j].representative_phone_norm

\* C2: whenever no request is in progress, after any sequence of batches
\* and block/unblock requests, the leads that share a non-empty
\* representative_phone_norm have the same is_blocked_number.
C2_BlockPropagationInvariant ==
    Quiet => \A i, j \in Ids :
                SamePhone(i, j) => leads[i].is_blocked_number = leads[j].is_blocked_number

\* C3: under any interleaving of concurrent calls no two leads have the same
\* unique_key, and the retried save of a collided update stores the first 56
\* characters of the computed key followed by the lead's id in 8 digits,
\* 64 characters in all.
C3_UniqueKeys ==
    [][ /\ \A i, j \in DOMAIN leads' :
             i # j => leads'[i].unique_key # leads'[j].unique_key
        /\ \A w \in Workers :
             (wk[w].pc = "retry" /\ wk'[w].pc = "next") =>
                LET stored == leads'[wk[w].lead_id].unique_key
                IN  /\ Len(stored) = 64
                    /\ SubSeq(stored, 1, 56) = SubSeq(wk[w].unique_key, 1, 56)
                    /\ AllDigits(SubSeq(stored, 57, 64))
                    /\ ToNat(SubSeq(stored, 57, 64)) = wk[w].lead_id ]_vars

\* a save collided and its lead now carries another key than the computed one
C3_Witness ==
    \E w \in Workers : \E i \in RowEvents :
        /\ log[i].conflict /\ log[i].outcome = "updated"
        /\ Len(leads) = 2
        /\ leads[log[i].lead].unique_key # leads[3 - log[i].lead].unique_key
        /\ wk[w].pc = "next" /\ wk[w].updated = 1

\* C4: a row that carries a canonical field, ingested a second time unchanged
\* with the same default_source right after the first time, is reported as
\* updated and the number of leads does not grow.
C4_SecondIngestionUpdates ==
    \A i \in RowEvents :
        ( /\ i + 1 \in RowEvents
          /\ log[i].row = log[i + 1].row
          /\ log[i].src = log[i + 1].src
          /\ log[i].outcome \notin {"invalid", "ignored"} ) =>
            /\ log[i + 1].outcome = "updated"
            /\ log[i + 1].count = log[i].count

Ativo == <<"A", "t", "i", "v", "o">>

Pendente == <<"P", "e", "n", "d", "e", "n", "t", "e">>

\* the contract_status column of RowPunct (1) and of RowDigits (2)
StatusOfRow(r) == IF r = 1 THEN Ativo ELSE Pendente

\* two row events are all that happened, and no row is under way
OnlyTwoRows ==
    /\ Len(log) = 2 /\ RowEvents = {1, 2}
    /\ wk[1].pc \in {"idle", "next"}

\* C5: RowPunct and RowDigits have the same source, city and name and phones
\* that differ in formatting only: ingested one after the other (same
\* source) into the empty table they leave exactly one lead, the second is
\* reported as updated, and the lead carries the second row's status.
C5_FormatTolerantDedup ==
    ( /\ OnlyTwoRows
      /\ {log[1].row, log[2].row} = {1, 2}
      /\ log[1].src = log[2].src ) =>
        /\ log[1].outcome = "created"
        /\ log[2].outcome = "updated"
        /\ log[2].lead = 1
        /\ Len(leads) = 1
        /\ leads[1].contract_status = StatusOfRow(log[2].row)

\* the test's order: punctuated phone first, bare digits second
C5_Witness ==
    /\ OnlyTwoRows
    /\ log[1].row = 1 /\ log[2].row = 2
    /\ log[1].src = log[2].src
    /\ Len(leads) = 1
    /\ leads[1].contract_status = Pendente

\* C6: the UPDATE of a block (unblock) request on a lead with a non-empty
\* representative_phone_norm sets is_blocked_number to true (false) on every
\* lead with that representative_phone_norm, however its phone is written.
C6_BlockReachesSamePhone ==
    [][ (tg.pc = "update" /\ tg'.pc = "idle"
            /\ leads[tg.lead_id].representative_phone_norm # <<>>) =>
          \A i \in Ids :
             SamePhone(i, tg.lead_id) => leads'[i].is_blocked_number = tg.blocked ]_vars

\* two leads of one number, written differently, were blocked together and
\* then unblocked together
C6_Witness ==
    /\ Len(leads) = 2
    /\ SamePhone(1, 2)
    /\ leads[1].representative_phone # leads[2].representative_phone
    /\ ~leads[1].is_blocked_number /\ ~leads[2].is_blocked_number
    /\ \E i, j \in 1..Len(log) :
          /\ i < j /\ j = Len(log)
          /\ log[i].kind = "toggle" /\ log[i].outcome = "blocked" /\ log[i].count = 2
          /\ log[j].kind = "toggle" /\ log[j].outcome = "unblocked"
          /\ log[i].lead # log[j].lead

Counted(f) == f.created + f.updated + f.ignored + f.invalid

\* C7: every row taken increments exactly one of created, updated, ignored,
\* invalid, and a call that returns reports processed = created + updated +
\* ignored + invalid = the number of rows of its input.
C7_CountersPartitionRows ==
    \A w \in Workers :
        /\ wk[w].pc = "next" => Counted(wk[w]) = wk[w].n
        /\ wk[w].pc \notin {"idle", "next"} => Counted(wk[w]) = wk[w].n - 1
        /\ wk[w].outcome = "returned" =>
              /\ Counted(wk[w]) = wk[w].n
              /\ Result(wk[w]).processed = wk[w].n
              /\ Result(wk[w]).processed =
                    Result(wk[w]).created + Result(wk[w]).updated
                      + Result(wk[w]).ignored + Result(wk[w]).invalid

\* a call returned after a stored row, an empty row and a row that is no mapping
C7_Witness ==
    /\ wk[1].outcome = "returned"
    /\ wk[1].n = 3
    /\ wk[1].created = 1 /\ wk[1].ignored = 1 /\ wk[1].invalid = 1

\* C8: with storage available upsert_rows never raises because of what a row
\* contains: no row ends the call with an exception.
C8_NoRowContentRaises ==
    \A i \in RowEvents : log[i].outcome # "raised"

\* C9: when the save of an update collides on unique_key the call does not
\* raise: the next step of that call stores the lead under the id-suffixed
\* key and counts the row as updated.
C9_SaveConflictRecovered ==
    [][ \A w \in Workers :
          (wk[w].pc = "retry" /\ wk'[w] # wk[w]) =>
             /\ wk'[w].pc = "next"
             /\ wk'[w].outcome # "raised"
             /\ wk'[w].updated = wk[w].updated + 1
             /\ wk'[w].created = wk[w].created
             /\ leads'[wk[w].lead_id].unique_key # wk[w].unique_key
             /\ leads'[wk[w].lead_id].unique_key =
                   SubSeq(wk[w].unique_key, 1, 56) \o Format08d(wk[w].lead_id) ]_vars

\* a call returned after its save collided and was retried
C9_Witness ==
    \E w \in Workers :
        /\ wk[w].outcome = "returned"
        /\ wk[w].updated >= 1
        /\ \E i \in RowEvents :
              log[i].w = w /\ log[i].conflict /\ log[i].outcome = "updated"

\* C10: no stored lead field is longer than its column maximum: a longer
\* value is stored cut to the maximum.
C10_StoredWithinMaximum ==
    \A i \in Ids :
        /\ Len(leads[i].city) <= CITY_MAX
        /\ Len(leads[i].establishment_name) <= NAME_MAX
        /\ Len(leads[i].company_category) <= CATEGORY_MAX
        /\ Len(leads[i].contract_status) <= STATUS_MAX
        /\ Len(leads[i].representative_phone) <= PHONE_MAX

\* C11: parse_lead_datetime never raises, whatever the value: empty,
\* nonsense, or shaped like a date and time that does not exist.
C11_ParseNeverRaises ==
    (fn = "parse_lead_datetime" /\ res.done) => ~res.raises

\* the rows in which no canonical field is populated: RowJunk, RowBlank
BlankRows == {7, 12}

\* C12: a row in which no canonical field is populated is never looked up;
\* the step that takes it increments ignored alone and leaves every lead as
\* it is, last_seen_at included.
C12_EmptyRowLeavesStore ==
    [][ \A w \in Workers :
          /\ wk'[w].row \notin BlankRows
          /\ \A r \in BlankRows :
                (wk[w].pc = "next" /\ Len(log') = Len(log) + 1
                    /\ log'[Len(log')].w = w /\ log'[Len(log')].row = r) =>
                   /\ log'[Len(log')].outcome = "ignored"
                   /\ leads' = leads
                   /\ wk'[w].ignored = wk[w].ignored + 1
                   /\ wk'[w].created = wk[w].created
                   /\ wk'[w].updated = wk[w].updated
                   /\ wk'[w].invalid = wk[w].invalid ]_vars

\* the row of blank values was ignored with a lead in the store, which still
\* has the last_seen_at of its creation
C12_Witness ==
    /\ Len(leads) = 1
    /\ leads[1].last_seen_at = leads[1].first_seen_at
    /\ wk[1].outcome = "returned" /\ wk[1].ignored = 1 /\ wk[1].created = 1
    /\ \E i \in RowEvents : log[i].row = 12 /\ log[i].outcome = "ignored" /\ log[i].count = 1

\* C13: no write to a lead, by an update of upsert_rows or by a block or
\* unblock request, in any interleaving, leaves it with an earlier
\* last_seen_at than it had.
C13_LastSeenNeverDecreases ==
    [][ \A i \in Ids : leads'[i].last_seen_at >= leads[i].last_seen_at ]_vars

\* the decimal digits of a text, in order
DigitsOf(t) == SelectSeq(t, LAMBDA c : c \in {"0", "1", "2", "3", "4", "5", "6", "7", "8", "9"})

\* C18: normalize_phone rejects no input and returns the digits of the input,
\* preceded by "55" when there are exactly 10 or 11 of them; digits that start
\* with "55" and are more than 11, and all other digit strings, the empty one
\* included, come back unchanged.
C18_PhoneNormalForm ==
    (fn = "normalize_phone" /\ res.done) =>
        /\ ~res.raises
        /\ res.value = IF Len(DigitsOf(arg)) \in {10, 11}
                       THEN <<"5", "5">> \o DigitsOf(arg)
                       ELSE DigitsOf(arg)

\* a punctuated number of 12 digits from "55" on kept as it is, no second
\* country code put before it
C18_Witness ==
    /\ fn = "normalize_phone" /\ res.done
    /\ arg # DigitsOf(arg)
    /\ Len(DigitsOf(arg)) = 12
    /\ SubSeq(arg, 1, 2) # <<"5", "5">>
    /\ res.value = DigitsOf(arg)
    /\ SubSeq(res.value, 1, 3) = <<"5", "5", "9">>

\* C14: when upsert_rows raises, the request ends with its MacroRun saved as
\* "error" with a finished_at, on the API path and on the CSV path alike, and
\* the API answers 500.
C14_RaisedRunMarkedError ==
    [][ \A w \in Workers :
          (rq[w].pc = "call" /\ wk[w].outcome = "raised" /\ rq'[w].pc = "idle") =>
              /\ runs'[rq[w].run_id].status = "error"
              /\ runs'[rq[w].run_id].finished_at # 0
              /\ rq[w].view = "api" => out'[Len(out')].status = 500 ]_vars

\* the runs of the API that carry an execution_id
RunsOfExecution(execution_id) ==
    {j \in 1..Len(runs) : runs[j].run_type = "api" /\ runs[j].execution_id = execution_id}

\* C15: once an API import that carries a non-empty execution_id has been
\* answered 200, exactly one API MacroRun carries that execution_id, and its
\* status is "success".
C15_OneRunPerExecution ==
    \A i \in 1..Len(out) :
        (out[i].view = "api" /\ out[i].status = 200 /\ out[i].execution_id # "") =>
            /\ Cardinality(RunsOfExecution(out[i].execution_id)) = 1
            /\ \A j \in RunsOfExecution(out[i].execution_id) : runs[j].status = "success"

\* C16: within one window of the rate limiter no more than
\* MACRO_API_RATE_LIMIT_PER_MINUTE requests of one address are admitted,
\* however the requests overlap.
C16_AdmittedWithinLimit ==
    \A ip \in IPs : admitted[ip] <= MACRO_API_RATE_LIMIT_PER_MINUTE

\* C17: when the collect page has been loaded, no MacroRun is left "running"
\* whose started_at is more than MACRO_RUN_STALE_MINUTES before the visit.
C17_CollectClosesStaleRuns ==
    [][ (Len(out') = Len(out) + 1 /\ out'[Len(out')].view = "collect") =>
            \A j \in 1..Len(runs') :
                ~ ( /\ runs'[j].status = "running"
                    /\ runs'[j].started_at + MACRO_RUN_STALE_MINUTES < out'[Len(out')].at ) ]_vars

\* the stripped value of the column with this header, empty without the column
ColumnOf(raw_row, header) ==
    LET at == {k \in 1..Len(raw_row.items) : raw_row.items[k][1] = header}
    IN  IF at = {} THEN <<>> ELSE Strip(raw_row.items[CHOOSE k \in at : TRUE][2])

\* C19: the Lead created or updated from a row with a column headed
\* "Seu Negocio na 99" has that column's value as its business_99_status.
C19_Business99Recognized ==
    Len(log) > 0 =>
        LET e == log[Len(log)]
        IN  ( /\ e.kind = "row"
              /\ e.outcome \in {"created", "updated"}
              /\ ColumnOf(RowAt(e.row), H_b99) # <<>> ) =>
                leads[e.lead].business_99_status = ColumnOf(RowAt(e.row), H_b99)

\* the leads a step of upsert_rows adds to its created counter; a new call
\* starts its counter at zero
CreatedBy(before, after) ==
    IF after.created >= before.created THEN after.created - before.created ELSE 0

\* C20: no step of upsert_rows or of the block toggle removes a Lead, and the
\* table grows by exactly what the batch adds to its created count, so that
\* a returned batch leaves the leads it found plus its created count.
C20_LeadsNeverDeleted ==
    [][ /\ Len(leads') >= Len(leads)
        /\ \A i \in 1..Len(leads) : leads'[i].first_seen_at = leads[i].first_seen_at
        /\ Len(leads') - Len(leads) = CreatedBy(wk[1], wk'[1]) + CreatedBy(wk[2], wk'[2]) ]_vars

C20_Witness ==
    /\ wk[1].outcome = "returned"
    /\ wk[1].created >= 1 /\ wk[1].updated >= 1
    /\ toggles >= 1
    /\ Len(leads) >= 1

\* the leads of the same source, city and establishment name as the row
SameEstablishment(parsed) ==
    {i \in Ids : /\ leads[i].source = parsed.source
                 /\ IExact(leads[i].city, parsed.city)
                 /\ IExact(leads[i].establishment_name, parsed.establishment_name)}

\* the leads the three tiers allow for a row, read off the table in one go
Resolved(parsed, unique_key) ==
    LET byKey   == {i \in Ids : leads[i].unique_key = unique_key}
        byPhone == {i \in SameEstablishment(parsed) :
                      leads[i].representative_phone_norm = parsed.representative_phone_norm}
        byAddr  == {i \in SameEstablishment(parsed) : IExact(leads[i].address, parsed.address)}
    IN  IF byKey # {} THEN byKey
        ELSE IF byPhone # {} THEN MostRecent(byPhone)
        ELSE IF parsed.address # <<>> /\ byAddr # {} THEN MostRecent(byAddr)
        ELSE {}

\* the step stores the row of worker w: the log gains its created or updated event
Stores(w) ==
    /\ Len(log') = Len(log) + 1
    /\ log'[Len(log')].kind = "row"
    /\ log'[Len(log')].w = w
    /\ log'[Len(log')].outcome \in {"created", "updated"}

\* C21: with one request at a time, a row updates the lead of its exact
\* unique_key if there is one, else the most recently seen lead of its
\* source, city, name and normalised phone, else (for a row with an address)
\* the most recently seen lead of its source, city, name and address; it
\* creates a lead only when no tier matches.
C21_TieredMatchFirstHitWins ==
    [][ \A w \in Workers :
          Stores(w) =>
            LET hits == Resolved(wk[w].parsed, wk[w].unique_key)
                e    == log'[Len(log')]
            IN  IF hits = {} THEN e.outcome = "created"
                ELSE e.outcome = "updated" /\ e.lead \in hits ]_vars

\* a row created a lead, a row of another key and phone updated it by its
\* address, and a row that matched nothing created another
C21_Witness ==
    \E i, j, k \in RowEvents :
        /\ i < j /\ log[i].row = 1 /\ log[i].outcome = "created"
        /\ log[j].row = 3 /\ log[j].outcome = "updated" /\ log[j].lead = log[i].lead
        /\ log[k].row = 4 /\ log[k].outcome = "created"

\* the step creates the lead of the row of worker w
Creates(w) == Stores(w) /\ log'[Len(log')].outcome = "created"

\* the step saves the lead the row of worker w matched
Updates(w) == Stores(w) /\ log'[Len(log')].outcome = "updated"

\* C22: a lead is created blocked exactly when, as the row is processed, a
\* lead of the same non-empty normalised phone is blocked; a lead created
\* without a phone is not blocked.
C22_CreatedInheritsBlock ==
    [][ \A w \in Workers :
          Creates(w) =>
            LET new   == leads'[Len(leads')]
                phone == new.representative_phone_norm
            IN  new.is_blocked_number <=>
                  ( /\ phone # <<>>
                    /\ \E i \in Ids : /\ leads[i].representative_phone_norm = phone
                                      /\ leads[i].is_blocked_number ) ]_vars

\* the lead just created is blocked, and an older lead is not
C22_Witness ==
    /\ Len(log) > 0
    /\ log[Len(log)].kind = "row" /\ log[Len(log)].outcome = "created"
    /\ log[Len(log)].lead = Len(leads)
    /\ leads[Len(leads)].is_blocked_number
    /\ \E i \in Ids : ~leads[i].is_blocked_number

\* C23: after an update, a lead with a phone that shares it with a blocked
\* other lead is blocked.
C23_UpdatedTakesBlock ==
    [][ \A w \in Workers :
          Updates(w) =>
            LET id == log'[Len(log')].lead
            IN  ( /\ leads'[id].representative_phone_norm # <<>>
                  /\ \E j \in Ids \ {id} :
                        /\ leads'[j].representative_phone_norm = leads'[id].representative_phone_norm
                        /\ leads'[j].is_blocked_number )
                  => leads'[id].is_blocked_number ]_vars

\* a lead that was not blocked has just been moved by a row to the phone of
\* a blocked lead, and is blocked
C23_Witness ==
    /\ Len(log) > 1
    /\ log[Len(log)].kind = "row" /\ log[Len(log)].outcome = "updated"
    /\ log[Len(log)].row = 3
    /\ log[Len(log) - 1].kind = "toggle" /\ log[Len(log) - 1].outcome = "blocked"
    /\ log[Len(log) - 1].lead # log[Len(log)].lead
    /\ leads[log[Len(log)].lead].is_blocked_number

\* C26: a row without phone whose key no lead has updates a most recently
\* seen lead without phone of its source, city and establishment name when
\* there is one: no lead is created and the lead takes the key of the row.
C26_PhonelessTier2 ==
    [][ \A w \in Workers :
          Stores(w) =>
            LET parsed == wk[w].parsed
                hits   == {i \in SameEstablishment(parsed) : leads[i].representative_phone_norm = <<>>}
                e      == log'[Len(log')]
            IN  ( /\ parsed.representative_phone_norm = <<>>
                  /\ \A i \in Ids : leads[i].unique_key # wk[w].unique_key
                  /\ hits # {} )
                  => /\ e.outcome = "updated"
                     /\ e.lead \in MostRecent(hits)
                     /\ Len(leads') = Len(leads)
                     /\ leads'[e.lead].unique_key = wk[w].unique_key ]_vars

\* the lead of RowNoPhoneA has been updated by RowNoPhoneB, whose address,
\* representative and key differ
C26_Witness ==
    /\ Len(log) = 2 /\ Len(leads) = 1
    /\ log[1].row = 5 /\ log[1].outcome = "created"
    /\ log[2].row = 6 /\ log[2].outcome = "updated" /\ log[2].lead = 1
    /\ leads[1].address = <<"R", "u", "a", " ", "3">>
    /\ leads[1].representative_phone_norm = <<>>

\* C28: after an update without key conflict, with one request at a time,
\* the stored source, canonical fields and normalised phone are the row's,
\* empty values included, and the stored unique_key is the key of the row.
C28_UpdateStoresIncoming ==
    [][ \A w \in Workers :
          (Updates(w) /\ ~log'[Len(log')].conflict) =>
            LET id == log'[Len(log')].lead
            IN  /\ \A fld \in DefaultFields : leads'[id][fld] = wk[w].parsed[fld]
                /\ leads'[id].unique_key = wk[w].unique_key ]_vars

\* the lead created with an address has been updated by the row without
\* address, and its address is empty
C28_Witness ==
    /\ Len(log) = 2 /\ Len(leads) = 1
    /\ log[1].row = 1 /\ log[1].outcome = "created"
    /\ log[2].row = 2 /\ log[2].outcome = "updated" /\ ~log[2].conflict
    /\ leads[1].address = <<>>
    /\ leads[1].contract_status = Pendente

\* C24: a save of upsert_rows writes the columns it found changed and
\* last_seen_at, each changed column with the row's value; every other
\* column of the lead, first_seen_at and business_99_status among them, and
\* every other lead stay as they are in the store, whatever another request
\* wrote since the lead was read.
C24_UpdateWritesChangedOnly ==
    [][ \A w \in Workers :
          Updates(w) =>
            LET id      == wk[w].lead_id
                written == wk[w].changed \cup {"last_seen_at"}
            IN  /\ wk[w].changed \subseteq DefaultFields \cup {"unique_key", "is_blocked_number"}
                /\ \A fld \in LeadFields \ written : leads'[id][fld] = leads[id][fld]
                /\ \A fld \in wk[w].changed \cap DefaultFields : leads'[id][fld] = wk[w].parsed[fld]
                /\ \A i \in Ids \ {id} : leads'[i] = leads[i] ]_vars

\* a request read the lead, another request saved it with another status,
\* and the first, whose row changes nothing, saved it last: the status of the
\* other request is in the store
C24_Witness ==
    /\ Len(log) = 3 /\ Len(leads) = 1
    /\ log[1].row = 1 /\ log[1].outcome = "created"
    /\ log[2].row = 2 /\ log[2].outcome = "updated"
    /\ log[3].row = 1 /\ log[3].outcome = "updated" /\ log[3].w # log[2].w
    /\ leads[1].contract_status = Pendente
    /\ leads[1].first_seen_at < leads[1].last_seen_at

\* the step is the UPDATE of a block or unblock request
ToggleStep == tg.pc = "update" /\ tg'.pc = "idle"

\* C27: no step of upsert_rows takes the block off a lead.
C27_UpsertNeverUnblocks ==
    [][ ~ToggleStep =>
          \A i \in Ids : leads[i].is_blocked_number => leads'[i].is_blocked_number ]_vars

\* a blocked lead has just been moved to another number by a row, and is
\* still blocked
C27_Witness ==
    \E i, j \in 1..Len(log) :
        /\ i < j /\ j < Len(log)
        /\ log[i].kind = "row" /\ log[i].row = 1 /\ log[i].outcome = "created"
        /\ log[j].kind = "toggle" /\ log[j].outcome = "blocked" /\ log[j].lead = log[i].lead
        /\ \A k \in (j + 1)..Len(log) : log[k].kind = "row"
        /\ log[Len(log)].row = 3 /\ log[Len(log)].outcome = "updated"
        /\ log[Len(log)].lead = log[i].lead
        /\ leads[log[i].lead].is_blocked_number
        /\ leads[log[i].lead].representative_phone_norm # normalize_phone(RowPunct.items[3][2])

\* the statuses macro_api_import rejects a request with before it creates a run
Rejections == {405, 401, 403, 429}

\* C29: a request macro_api_import answers 405, 401, 403 or 429 has created
\* no MacroRun and has not reached upsert_rows: the answer names no run, the
\* step leaves runs and leads as they are, and the handler's upsert_rows
\* frame has not been entered.
C29_RejectedLeavesNoTrace ==
    [][ ( /\ Len(out') = Len(out) + 1
          /\ out'[Len(out')].view = "api"
          /\ out'[Len(out')].status \in Rejections ) =>
            LET e == out'[Len(out')]
            IN  /\ e.run = 0
                /\ runs' = runs
                /\ leads' = leads
                /\ wk[e.w] = IdleFrame /\ wk'[e.w] = IdleFrame
                /\ rq[e.w].run_id = 0 ]_vars

\* a request was admitted and imported a lead, and the next from the same
\* address was answered 429: there is the one run and the one lead
C29_Witness ==
    /\ Len(out) = 2
    /\ out[1].status = 200
    /\ out[2].status = 429 /\ out[2].ip = out[1].ip
    /\ Len(runs) = 1 /\ Len(leads) = 1

\* the last event of the log that creates a lead or blocks or unblocks a number
LastDisturbance ==
    LET at == {k \in 1..Len(log) : log[k].kind = "toggle" \/ log[k].outcome = "created"}
    IN  IF at = {} THEN 0 ELSE CHOOSE k \in at : \A m \in at : m <= k

\* the lead has been saved by upsert_rows since
TouchedSince(i, k) ==
    \E m \in (k + 1)..Len(log) :
        log[m].kind = "row" /\ log[m].outcome = "updated" /\ log[m].lead = i

\* C25: when the leads of one phone number were left with different flags
\* and each of them has since been saved by upsert_rows (its phone
\* unchanged), they all have the same is_blocked_number again.
C25_TouchedLeadsAgree ==
    \A i, j \in Ids :
        ( /\ leads[i].representative_phone_norm # <<>>
          /\ leads[i].representative_phone_norm = leads[j].representative_phone_norm
          /\ \A m \in Ids :
                leads[m].representative_phone_norm = leads[i].representative_phone_norm
                  => TouchedSince(m, LastDisturbance) )
          => leads[i].is_blocked_number = leads[j].is_blocked_number

\* a lead was created blocked while its number was being unblocked, so that
\* the two leads of the number differed; both have been saved since and
\* both are blocked
C25_Witness ==
    /\ Len(log) = 6 /\ Len(leads) = 2
    /\ log[1].outcome = "created"
    /\ log[2].kind = "toggle" /\ log[2].outcome = "blocked"
    /\ log[3].kind = "toggle" /\ log[3].outcome = "unblocked"
    /\ log[4].kind = "row" /\ log[4].outcome = "created"
    /\ log[5].outcome = "updated" /\ log[6].outcome = "updated"
    /\ log[5].lead # log[6].lead
    /\ leads[1].representative_phone_norm = leads[2].representative_phone_norm
    /\ leads[1].is_blocked_number /\ leads[2].is_blocked_number

\* C30: at most one job thread of the agent is under way at any time, and a
\* /start is accepted only when none is.
C30_OneJobAtATime ==
    /\ Cardinality(LiveJobs) <= 1
    /\ \A k \in 1..Len(agent.answers) :
          agent.answers[k].status = 200 => agent.answers[k].live = 0

====
